---------------------------- MODULE Spec2Model ----------------------------
(***************************************************************************)
(* A model of splitwavepy's measurement core: the lag grid of a Measure,   *)
(* the error bars of get_errors, the Pair container with its Window, the   *)
(* grid search and the eigenvalue measurement.                             *)
(*                                                                         *)
(* Numbers.  Times are exact rationals [n |-> numerator, d |-> denominator]*)
(* counted in a fixed time unit; the sampling interval delta is a positive *)
(* whole number of those units.  Floating point is modelled by exact       *)
(* arithmetic.                                                             *)
(***************************************************************************)
EXTENDS Integers, Sequences, FiniteSets, TLC

VARIABLES
    grid,     \* the lag grid of a Measure under construction
    errs,     \* a Measure with an error surface, and its get_errors call
    pair,     \* a Pair: traces, orientation, window, delta
    hist,     \* the last operation on the Pair, and the Pair before a split
    twin,     \* a second Pair, made by Pair.copy()
    call,     \* the last call on the Pair's window and what it returned or raised
    gs,       \* a Measure and the activation of its gridsearch
    eig       \* an EigenM: its grid, its two surfaces and its best fit

vars == <<grid, errs, pair, hist, twin, call, gs, eig>>

---------------------------------------------------------------------------
(* Bounds of the model *)

\* largest requested lag time, in time units
MaxLagTime == 6
\* largest explicit point count of a lags tuple
MaxCount == 4
\* largest sampling interval, in time units
MaxDelta == 2
\* number of window widths tried for the default lag range
MaxWidthIdx == 2
\* angle columns of the error surfaces tried
MaxNA == 3
\* angle columns of the error surfaces with a single occupied lag row
MaxWide == 6
\* lag rows of the error surfaces tried
MaxNL == 2
\* longest trace of a Pair, in samples
MaxN == 5
\* largest lag time given to Pair.split and Pair.unsplit, in time units
MaxPairLag == 3
\* largest window offset tried, in samples
MaxOffset == 3
\* largest window start or end time tried, in time units
MaxWinTime == 4
\* largest lag time of a Measure's grid, in time units
MaxGsLag == 4
\* largest window offset of a Measure's data, in samples
MaxGsOffset == 1
\* largest eigenvalue of the surfaces of an EigenM
MaxLam == 3
\* largest lag time of a correction keyword, in time units
MaxCorrLag == 3
\* largest number of columns an error surface is moved by (besides all but one)
MaxRoll == 3
\* largest lag time of a Pair.split call before a Measure is built
MaxSplitLag == 2

---------------------------------------------------------------------------
(* Generic helpers *)

Abs(a) == IF a < 0 THEN -a ELSE a

Min(a, b) == IF a < b THEN a ELSE b

Max(a, b) == IF a > b THEN a ELSE b

SeqRange(s) == { s[i] : i \in 1..Len(s) }

\* the smallest element of a non-empty finite set of integers
SetMin(S) == CHOOSE m \in S : \A k \in S : m <= k

SetMax(S) == CHOOSE m \in S : \A k \in S : m >= k

\* numpy.unique: the sorted distinct values
SortedSeq(S) ==
    [ k \in 1..Cardinality(S) |->
        CHOOSE m \in S : Cardinality({ x \in S : x < m }) = k - 1 ]

\* a rational time
Rat(n, d) == [n |-> n, d |-> d]

\* numpy.rint of the rational n/d (d > 0): nearest integer, halves to even
Rint(n, d) ==
    LET fl == n \div d
        r  == n % d
    IN  IF 2 * r < d THEN fl
        ELSE IF 2 * r > d THEN fl + 1
        ELSE IF fl % 2 = 0 THEN fl ELSE fl + 1

\* core.time2samps(t, delta, mode='even'): 2 * rint((t / delta) / 2)
time2samps_even(t, delta) == 2 * Rint(t.n, 2 * t.d * delta)

\* core.samps2time(samps, delta)
samps2time(samps, delta) == samps * delta

\* numpy.linspace(start, stop, num) for rational start and stop
linspace(start, stop, num) ==
    IF num = 1 THEN << start >>
    ELSE [ i \in 1..num |->
            Rat( start.n * stop.d * (num - 1)
                   + (i - 1) * (stop.n * start.d - start.n * stop.d),
                 start.d * stop.d * (num - 1) ) ]

---------------------------------------------------------------------------
(* Measure: the lag grid (measure.py, _parse_lags and                      *)
(* _get_degs_lags_and_slags)                                               *)

\* nlags of _parse_lags
nlags == 40

\* minlag of _parse_lags
minlag == 0

\* Data.wwidth(): (window.width - 1) * delta
wwidth(width, delta) == (width - 1) * delta

\* Measure._parse_lags: the requested lag times, or the error raised.
\* kw.kind is "absent" (no lags keyword), "array", "tuple" or "other".
parse_lags(kw, width, delta) ==
    LET maxlag == Rat(wwidth(width, delta), 4)
    IN  IF kw.kind = "absent"
          THEN [raised |-> "none", lags |-> linspace(Rat(minlag, 1), maxlag, nlags)]
        ELSE IF kw.kind = "array"
          THEN [raised |-> "none", lags |-> kw.vals]
        ELSE IF kw.kind = "tuple"
          THEN IF Len(kw.vals) = 1
                 THEN [raised |-> "none",
                       lags |-> linspace(Rat(minlag, 1), kw.vals[1], nlags)]
               ELSE IF Len(kw.vals) = 2
                 THEN [raised |-> "none",
                       lags |-> linspace(Rat(minlag, 1), kw.vals[1], kw.vals[2].n)]
               ELSE IF Len(kw.vals) = 3
                 THEN [raised |-> "none",
                       lags |-> linspace(kw.vals[1], kw.vals[2], kw.vals[3].n)]
               ELSE [raised |-> "Exception", lags |-> << >>]
        ELSE [raised |-> "TypeError", lags |-> << >>]

\* the mutant of get_degs_lags_and_slags: duplicates kept, request order kept
get_lags_and_slags_nodedup(kw, width, delta) ==
    LET p     == parse_lags(kw, width, delta)
        slags == [ i \in 1..Len(p.lags) |-> time2samps_even(p.lags[i], delta) ]
    IN  IF p.raised # "none"
          THEN [raised |-> p.raised, req |-> << >>, slags |-> << >>, lags |-> << >>]
          ELSE [raised |-> "none", req |-> p.lags, slags |-> slags,
                lags |-> [ i \in 1..Len(slags) |-> samps2time(slags[i], delta) ]]

\* another mutant of get_lags_and_slags: the lags reported in samples
get_lags_and_slags_nodelta(kw, width, delta) ==
    LET p     == parse_lags(kw, width, delta)
        slags == SortedSeq({ time2samps_even(p.lags[i], delta) : i \in 1..Len(p.lags) })
    IN  IF p.raised # "none"
          THEN [raised |-> p.raised, req |-> << >>, slags |-> << >>, lags |-> << >>]
          ELSE [raised |-> "none", req |-> p.lags, slags |-> slags, lags |-> slags]

\* Measure._get_degs_lags_and_slags, the lag part: samples, deduplicated,
\* and the times recomputed from them.  req keeps the parsed request.
get_lags_and_slags(kw, width, delta) ==
    LET p     == parse_lags(kw, width, delta)
        slags == SortedSeq({ time2samps_even(p.lags[i], delta) : i \in 1..Len(p.lags) })
    IN  IF p.raised # "none"
          THEN [raised |-> p.raised, req |-> << >>, slags |-> << >>, lags |-> << >>]
          ELSE [raised |-> "none", req |-> p.lags, slags |-> slags,
                lags |-> [ i \in 1..Len(slags) |-> samps2time(slags[i], delta) ]]

\* the lags keywords tried
LagTimes == { Rat(n, 1) : n \in 0..MaxLagTime } \cup { Rat(2 * n + 1, 2) : n \in 0..2 }

LagCounts == { Rat(n, 1) : n \in 0..MaxCount }

LagRequests ==
    { [kind |-> "absent", vals |-> << >>], [kind |-> "other", vals |-> << >>] }
    \cup { [kind |-> "array", vals |-> v] :
             v \in UNION { [1..k -> LagTimes] : k \in 0..2 } }
    \cup { [kind |-> "array", vals |-> << a, b, c >>] :
             a \in { Rat(5, 1), Rat(1, 2) }, b \in { Rat(0, 1), Rat(5, 2) },
             c \in { Rat(1, 1), Rat(4, 1) } }
    \cup { [kind |-> "tuple", vals |-> << >>] }
    \cup { [kind |-> "tuple", vals |-> << a >>] : a \in LagTimes }
    \cup { [kind |-> "tuple", vals |-> << a, c >>] : a \in LagTimes, c \in LagCounts }
    \cup { [kind |-> "tuple", vals |-> << a, b, c >>] :
             a \in { Rat(0, 1), Rat(1, 1) }, b \in LagTimes, c \in LagCounts }
    \cup { [kind |-> "tuple", vals |-> << a, a, a, a >>] : a \in { Rat(1, 1) } }
    \cup { [kind |-> "tuple", vals |-> << Rat(0, 1), Rat(10, 1), Rat(5, 1) >>] }

\* odd window widths tried for the default range
Widths == { 2 * k + 1 : k \in 0..MaxWidthIdx } \cup { 33 }

GridIdle == [pc |-> "idle"]

\* no second grid built
NotBuilt == [raised |-> "unset", req |-> << >>, slags |-> << >>, lags |-> << >>]

GridInit ==
    grid \in { [pc |-> "configured", kw |-> kw, width |-> w, delta |-> d,
                raised |-> "none", req |-> << >>, slags |-> << >>, lags |-> << >>,
                again |-> NotBuilt, re |-> NotBuilt] :
               kw \in LagRequests, w \in Widths, d \in 1..MaxDelta }

\* Measure.__init__, line 36: build the grid from the keywords
BuildGrid ==
    /\ grid.pc = "configured"
    /\ LET r == get_lags_and_slags(grid.kw, grid.width, grid.delta)
       IN  grid' = [grid EXCEPT !.pc = IF r.raised = "none" THEN "built" ELSE "raised",
                                !.raised = r.raised, !.req = r.req,
                                !.slags = r.slags, !.lags = r.lags]
    /\ UNCHANGED <<errs, pair, hist, twin, call, gs, eig>>

\* a second Measure constructed with the same lags keyword
BuildGridAgain ==
    /\ grid.pc \in {"built", "raised"}
    /\ grid.again = NotBuilt
    /\ grid' = [grid EXCEPT !.again = get_lags_and_slags(grid.kw, grid.width, grid.delta)]
    /\ UNCHANGED <<errs, pair, hist, twin, call, gs, eig>>

\* a Measure constructed with lags=measure.lags, the reported lag times
RebuildGrid ==
    /\ grid.pc = "built"
    /\ grid.re = NotBuilt
    /\ grid' = [grid EXCEPT !.re =
                   get_lags_and_slags([kind |-> "array",
                                       vals |-> [ i \in 1..Len(grid.lags) |-> Rat(grid.lags[i], 1) ]],
                                      grid.width, grid.delta)]
    /\ UNCHANGED <<errs, pair, hist, twin, call, gs, eig>>

\* C1: once the grid is built, slags are even sample counts in strictly
\* increasing order (so without duplicates), every requested time has its
\* nearest even sample count in slags and every slag is the nearest even
\* sample count of a requested time, the reported lags are slags * delta,
\* and there are as many lags as slags and no more than requested times.
NearestEven(s, t, delta) ==
    /\ s % 2 = 0
    /\ Abs(s * delta * t.d - t.n) <= delta * t.d

C1_LagGridSnappedDeduplicated ==
    grid.pc = "built" =>
        /\ \A j \in 1..Len(grid.slags) : grid.slags[j] % 2 = 0
        /\ \A i, j \in 1..Len(grid.slags) : i < j => grid.slags[i] < grid.slags[j]
        /\ \A i \in 1..Len(grid.req) :
              \E j \in 1..Len(grid.slags) :
                  NearestEven(grid.slags[j], grid.req[i], grid.delta)
        /\ \A j \in 1..Len(grid.slags) :
              \E i \in 1..Len(grid.req) :
                  NearestEven(grid.slags[j], grid.req[i], grid.delta)
        /\ Len(grid.lags) = Len(grid.slags)
        /\ \A j \in 1..Len(grid.slags) : grid.lags[j] = grid.slags[j] * grid.delta
        /\ Len(grid.slags) <= Len(grid.req)

\* C1 witness: a built grid where two requested times collapsed into one
\* column and a reported lag is not one of the requested times.
C1_Witness ==
    /\ grid.pc = "built"
    /\ Len(grid.slags) < Len(grid.req)
    /\ \E j \in 1..Len(grid.lags) :
          \A i \in 1..Len(grid.req) : grid.req[i].n # grid.lags[j] * grid.req[i].d

\* C12: a grid built a second time from the same request has the same slags
\* and lags (or raises the same error), and a grid built from the reported
\* lags of a grid has the slags and the lags of that grid.
C12_GridConstructionIdempotent ==
    /\ grid.again # NotBuilt =>
          /\ grid.again.raised = grid.raised
          /\ grid.again.slags = grid.slags
          /\ grid.again.lags = grid.lags
    /\ grid.re # NotBuilt =>
          /\ grid.re.raised = "none"
          /\ grid.re.slags = grid.slags
          /\ grid.re.lags = grid.lags

\* C12 witness: the request lags=(0, 10, 5) at delta = 2, whose times 2.5
\* and 7.5 are not reported, built twice and built again from its reported lags.
C12_Witness ==
    /\ grid.kw = [kind |-> "tuple", vals |-> << Rat(0, 1), Rat(10, 1), Rat(5, 1) >>]
    /\ grid.delta = 2
    /\ grid.again # NotBuilt
    /\ grid.re # NotBuilt
    /\ grid.re.slags = << 0, 2, 4 >>
    /\ grid.re.lags = << 0, 4, 8 >>

\* C26 (as claimed): a grid that is built has at least two lags, and the
\* step between any two adjacent reported lags is lags[1] - lags[0], the
\* step that get_errors scales the lag error with.
C26_LagGridEvenlySpaced ==
    grid.pc = "built" =>
        /\ Len(grid.lags) >= 2
        /\ \A k \in 1..(Len(grid.lags) - 1) :
              grid.lags[k + 1] - grid.lags[k] = grid.lags[2] - grid.lags[1]

---------------------------------------------------------------------------
(* Measure.get_errors (measure.py)                                         *)

\* numpy.where(b)[0] for a boolean sequence, as 1-based positions
where(b) == SortedSeq({ i \in 1..Len(b) : b[i] })

\* numpy.diff
diff(s) == [ i \in 1..(Len(s) - 1) |-> s[i + 1] - s[i] ]

\* confbool.any(axis=1): one value per row
any_axis1(m) == [ r \in 1..Len(m) |-> \E c \in 1..Len(m[r]) : m[r][c] ]

\* confbool.any(axis=0): one value per column
any_axis0(m) == [ c \in 1..Len(m[1]) |-> \E r \in 1..Len(m) : m[r][c] ]

RECURSIVE Gcd(_, _)
Gcd(a, b) == IF b = 0 THEN a ELSE Gcd(b, a % b)

\* the rational n/d (d > 0) in lowest terms
RatNorm(n, d) == LET g == Gcd(Abs(n), d) IN Rat(n \div g, d \div g)

\* a - b for rationals
RatSub(a, b) == RatNorm(a.n * b.d - b.n * a.d, a.d * b.d)

RatEq(a, b) == a.n * b.d = b.n * a.d

\* k * step * 0.25
Quarter(k, step) == RatNorm(k * step.n, 4 * step.d)

\* the confidence mask, lines 408-413
confbool(errsurf, level, surftype) ==
    [ r \in 1..Len(errsurf) |->
        [ c \in 1..Len(errsurf[r]) |->
            IF surftype = "max" THEN errsurf[r][c] >= level
                                ELSE errsurf[r][c] <= level ] ]

\* the mutant of get_errors: the angle error from the first-to-last span
get_errors_linear(lags, degs, errsurf, level, surftype) ==
    IF Len(lags) < 2 \/ Len(degs) < 2 THEN [raised |-> "IndexError"]
    ELSE IF surftype \notin {"max", "min"} THEN [raised |-> "ValueError"]
    ELSE LET cb == confbool(errsurf, level, surftype)
             truth == where(any_axis1(cb))
             ftruth == where(any_axis0(cb))
         IN  IF Len(truth) = 0 THEN [raised |-> "IndexError"]
             ELSE [raised |-> "none",
                   fdfast |-> Quarter(ftruth[Len(ftruth)] - ftruth[1] + 1,
                                      RatSub(degs[2], degs[1])),
                   fdlag |-> Quarter(truth[Len(truth)] - truth[1] + 1,
                                     RatSub(lags[2], lags[1]))]

\* another mutant of get_errors: the lag span without its last row
get_errors_span(lags, degs, errsurf, level, surftype) ==
    IF Len(lags) < 2 \/ Len(degs) < 2 THEN [raised |-> "IndexError"]
    ELSE IF surftype \notin {"max", "min"} THEN [raised |-> "ValueError"]
    ELSE LET cb == confbool(errsurf, level, surftype)
             truth == where(any_axis1(cb))
             fastbool == any_axis0(cb)
             gaps == diff(where(fastbool \o fastbool))
         IN  IF Len(truth) = 0 THEN [raised |-> "IndexError"]
             ELSE [raised |-> "none",
                   fdfast |-> Quarter(Len(fastbool) - (SetMax(SeqRange(gaps)) - 1),
                                      RatSub(degs[2], degs[1])),
                   fdlag |-> Quarter(truth[Len(truth)] - truth[1],
                                     RatSub(lags[2], lags[1]))]

\* a third mutant of get_errors: only the first column is repeated after
\* the last one
get_errors_onewrap(lags, degs, errsurf, level, surftype) ==
    IF Len(lags) < 2 \/ Len(degs) < 2 THEN [raised |-> "IndexError"]
    ELSE IF surftype \notin {"max", "min"} THEN [raised |-> "ValueError"]
    ELSE LET cb == confbool(errsurf, level, surftype)
             truth == where(any_axis1(cb))
             fastbool == any_axis0(cb)
             gaps == diff(where(fastbool \o << fastbool[1] >>))
         IN  IF Len(truth) = 0 THEN [raised |-> "IndexError"]
             ELSE IF Len(gaps) = 0 THEN [raised |-> "ValueError"]
             ELSE [raised |-> "none",
                   fdfast |-> Quarter(Len(fastbool) - (SetMax(SeqRange(gaps)) - 1),
                                      RatSub(degs[2], degs[1])),
                   fdlag |-> Quarter(truth[Len(truth)] - truth[1] + 1,
                                     RatSub(lags[2], lags[1]))]

\* Measure.get_errors: (fdfast, fdlag), or the exception raised
get_errors(lags, degs, errsurf, level, surftype) ==
    IF Len(lags) < 2 \/ Len(degs) < 2 THEN [raised |-> "IndexError"]
    ELSE IF surftype \notin {"max", "min"} THEN [raised |-> "ValueError"]
    ELSE LET lag_step  == RatSub(lags[2], lags[1])
             fast_step == RatSub(degs[2], degs[1])
             cb        == confbool(errsurf, level, surftype)
             lagbool   == any_axis1(cb)
             truth     == where(lagbool)
             fastbool  == any_axis0(cb)
             cyclic    == fastbool \o fastbool
             gaps      == diff(where(cyclic))
         IN  IF Len(truth) = 0 THEN [raised |-> "IndexError"]
             ELSE IF Len(gaps) = 0 THEN [raised |-> "ValueError"]
             ELSE LET lengthFalse == SetMax(SeqRange(gaps)) - 1
                      lengthTrue  == Len(fastbool) - lengthFalse
                  IN  [raised |-> "none",
                       fdfast |-> Quarter(lengthTrue, fast_step),
                       fdlag  |-> Quarter(truth[Len(truth)] - truth[1] + 1, lag_step)]

\* lower and upper end of the default angle range of _parse_degs
mindeg == -90

maxdeg == 90

\* Measure._parse_degs with degs given as a count: linspace without endpoint
parse_degs(ndegs) ==
    [ i \in 1..ndegs |-> Rat(mindeg * ndegs + (i - 1) * (maxdeg - mindeg), ndegs) ]

ErrsIdle == [pc |-> "idle"]

\* error surfaces with entries 0 and 1: rows are lags, columns are angles
Surfaces(nl, na) == [ 1..nl -> [ 1..na -> 0..1 ] ]

\* surfaces of two lag rows whose second row is all 0
WideSurfaces(na) == { << row, [ c \in 1..na |-> 0 ] >> : row \in [ 1..na -> 0..1 ] }

\* the seam example: a 90-column surface inside at columns 0, 1, 88 and 89
SeamSurface ==
    [ r \in 1..2 |-> [ c \in 1..90 |-> IF r = 1 /\ c \in {1, 2, 89, 90} THEN 1 ELSE 0 ] ]

\* the surface with its columns moved k places along the angle axis, the
\* last columns coming back in at the front
roll(errsurf, k) ==
    [ r \in 1..Len(errsurf) |->
        [ c \in 1..Len(errsurf[r]) |->
            errsurf[r][((c - 1 - k) % Len(errsurf[r])) + 1] ] ]

\* the numbers of columns a surface of na columns is moved by
Rolls(na) == { k \in 1..(na - 1) : k <= MaxRoll \/ k = na - 1 }

\* get_errors not called on a moved surface
NotRolled == [k |-> 0, ret |-> [raised |-> "none"]]

ErrsInit ==
    errs \in
        { [pc |-> "scored", lags |-> [ i \in 1..Len(s) |-> Rat(2 * (i - 1) * d, 1) ],
           degs |-> parse_degs(Len(s[1])), errsurf |-> s, level |-> v,
           surftype |-> t, ret |-> [raised |-> "none"], rolled |-> NotRolled] :
          s \in Surfaces(1, MaxNA) \cup Surfaces(MaxNL, 1)
                  \cup Surfaces(MaxNL, MaxNA) \cup WideSurfaces(MaxWide)
                  \cup { SeamSurface },
          t \in {"max", "min", "None"}, d \in 1..2, v \in 0..1 }

\* a call of get_errors on the scored measurement
GetErrors ==
    /\ errs.pc = "scored"
    /\ LET r == get_errors(errs.lags, errs.degs, errs.errsurf, errs.level, errs.surftype)
       IN  errs' = [errs EXCEPT !.pc = IF r.raised = "none" THEN "returned" ELSE "raised",
                                !.ret = r]
    /\ UNCHANGED <<grid, pair, hist, twin, call, gs, eig>>

\* a call of get_errors on a measurement with the same grid and level whose
\* surface is the scored one moved k columns along the angle axis
GetErrorsRolled ==
    /\ errs.pc \in {"returned", "raised"}
    /\ errs.rolled = NotRolled
    /\ \E k \in Rolls(Len(errs.errsurf[1])) :
          errs' = [errs EXCEPT !.rolled =
                      [k |-> k,
                       ret |-> get_errors(errs.lags, errs.degs, roll(errs.errsurf, k),
                                          errs.level, errs.surftype)]]
    /\ UNCHANGED <<grid, pair, hist, twin, call, gs, eig>>

\* the confidence mask of the measurement and its per-angle projection
ErrsMask == confbool(errs.errsurf, errs.level, errs.surftype)

ErrsFastbool == any_axis0(ErrsMask)

\* get_errors was called with a usable grid and surface type
ErrsCalled ==
    /\ errs.pc \in {"returned", "raised"}
    /\ errs.surftype \in {"max", "min"}
    /\ Len(errs.lags) >= 2
    /\ Len(errs.degs) >= 2

\* every True column of fb lies in the arc of len columns starting at start
ArcCovers(fb, start, len) ==
    \A c \in 1..Len(fb) : fb[c] => ((c - start) % Len(fb)) < len

\* the number of columns of the shortest circular arc holding every True column
ShortestArc(fb) ==
    SetMin({ len \in 1..Len(fb) : \E start \in 1..Len(fb) : ArcCovers(fb, start, len) })

\* C2: for every non-empty confidence mask get_errors returns, as angle
\* error, 0.25 * fast_step * (columns of the shortest circular arc holding
\* every True column); the 90-column mask True at columns {0,1,88,89} gives
\* the error of a 4-wide arc.
C2_AngleErrorIsShortestCircularArc ==
    /\ (ErrsCalled /\ \E c \in 1..Len(ErrsFastbool) : ErrsFastbool[c]) =>
          /\ errs.pc = "returned"
          /\ RatEq(errs.ret.fdfast,
                   Quarter(ShortestArc(ErrsFastbool), RatSub(errs.degs[2], errs.degs[1])))
    /\ (ErrsCalled /\ errs.errsurf = SeamSurface /\ errs.surftype = "max"
           /\ errs.level = 1) =>
          /\ errs.pc = "returned"
          /\ RatEq(errs.ret.fdfast, Quarter(4, Rat(maxdeg - mindeg, 90)))

\* C2 witness: get_errors has returned for the seam example, whose True
\* columns lie at both ends of the angle axis with False columns between.
C2_Witness ==
    /\ errs.pc = "returned"
    /\ errs.errsurf = SeamSurface
    /\ errs.surftype = "max"
    /\ errs.level = 1
    /\ ErrsFastbool[1] /\ ErrsFastbool[90] /\ ~ErrsFastbool[45]

\* C3 (as claimed): on an empty mask and on a full mask get_errors returns
\* a value and does not raise.
C3_TotalOnDegenerateMasks ==
    (/\ ErrsCalled
     /\ \/ \A r \in 1..Len(ErrsMask) : \A c \in 1..Len(ErrsMask[r]) : ~ErrsMask[r][c]
        \/ \A r \in 1..Len(ErrsMask) : \A c \in 1..Len(ErrsMask[r]) : ErrsMask[r][c])
    => errs.pc = "returned"

\* C28: when the mask is not empty, get_errors returns for the surface
\* moved cyclically along the angle axis, and with the angle error it
\* returned for the surface as it was.
C28_AngleErrorUnchangedByCyclicShift ==
    (/\ ErrsCalled
     /\ errs.rolled # NotRolled
     /\ \E c \in 1..Len(ErrsFastbool) : ErrsFastbool[c]) =>
        /\ errs.pc = "returned"
        /\ errs.rolled.ret.raised = "none"
        /\ RatEq(errs.rolled.ret.fdfast, errs.ret.fdfast)

\* C28 witness: get_errors has returned for a mask of 6 columns, True in
\* two adjacent columns only, moved by one column so that the True columns
\* lie at the two ends of the angle axis.
C28_Witness ==
    /\ errs.pc = "returned"
    /\ errs.rolled.k = 1
    /\ errs.rolled.ret.raised = "none"
    /\ Len(ErrsFastbool) = 6
    /\ \A c \in 1..6 : ErrsFastbool[c] <=> c \in {5, 6}
    /\ any_axis0(confbool(roll(errs.errsurf, 1), errs.level, errs.surftype))
          = << TRUE, FALSE, FALSE, FALSE, FALSE, TRUE >>

\* the nodes of the surface at its optimum: the largest value of a 'max'
\* surface, the smallest of a 'min' surface
ErrsOptimum ==
    { n \in (1..Len(errs.errsurf)) \X (1..Len(errs.errsurf[1])) :
        \A r \in 1..Len(errs.errsurf) : \A c \in 1..Len(errs.errsurf[r]) :
            IF errs.surftype = "max"
              THEN errs.errsurf[r][c] <= errs.errsurf[n[1]][n[2]]
              ELSE errs.errsurf[r][c] >= errs.errsurf[n[1]][n[2]] }

\* the lag rows inside the confidence region at the angle column c
ErrsRowsAt(c) == { r \in 1..Len(ErrsMask) : ErrsMask[r][c] }

\* the lag rows inside the confidence region at any angle
ErrsRowsAny == { r \in 1..Len(ErrsMask) : \E c \in 1..Len(ErrsMask[r]) : ErrsMask[r][c] }

\* C11 (as claimed): the lag error is 0.25 * lag_step * (last - first + 1)
\* with first and last the first and last lag rows inside the confidence
\* region at the angle of the optimum.
C11_LagErrorAlongOptimumAngle ==
    errs.pc = "returned" =>
        \E n \in ErrsOptimum :
            RatEq(errs.ret.fdlag,
                  Quarter(SetMax(ErrsRowsAt(n[2])) - SetMin(ErrsRowsAt(n[2])) + 1,
                          RatSub(errs.lags[2], errs.lags[1])))

\* C11 (amended): for every non-empty confidence mask get_errors returns, as
\* lag error, 0.25 * lag_step * (last - first + 1) with first and last the
\* first and last lag rows that are inside the confidence region at any angle.
C11_LagErrorIsQuarterOfProjectedExtent ==
    (ErrsCalled /\ ErrsRowsAny # {}) =>
        /\ errs.pc = "returned"
        /\ RatEq(errs.ret.fdlag,
                 Quarter(SetMax(ErrsRowsAny) - SetMin(ErrsRowsAny) + 1,
                         RatSub(errs.lags[2], errs.lags[1])))

\* C11 witness: get_errors has returned for a mask whose lag rows at the
\* angle of every optimum are fewer than its lag rows over all angles.
C11_Witness ==
    /\ errs.pc = "returned"
    /\ Cardinality(ErrsRowsAny) >= 2
    /\ \A n \in ErrsOptimum : Cardinality(ErrsRowsAt(n[2])) = 1

---------------------------------------------------------------------------
(* Angles and traces in exact arithmetic                                   *)
(*                                                                         *)
(* An angle is [c, s, d] with cos = c/d and sin = s/d, c*c + s*s = d*d.    *)
(* A trace pair is two sequences of numerators x, y over one common        *)
(* denominator den, kept in lowest terms.                                  *)

Ang(c, s, d) == [c |-> c, s |-> s, d |-> d]

Deg0 == Ang(1, 0, 1)

Deg90 == Ang(0, 1, 1)

\* atan2(4, 3), about 53.13 degrees
Deg53 == Ang(3, 4, 5)

\* atan2(-4, 3), about -53.13 degrees
DegM53 == Ang(3, -4, 5)

\* -a
AngNeg(a) == Ang(a.c, -a.s, a.d)

\* a - b for two angles, in lowest terms
AngSubOf(a, b) ==
    LET c  == a.c * b.c + a.s * b.s
        sn == a.s * b.c - a.c * b.s
        d  == a.d * b.d
        g  == Gcd(Gcd(Abs(c), Abs(sn)), d)
    IN  Ang(c \div g, sn \div g, d \div g)

RECURSIVE SeqGcd(_, _)
SeqGcd(s, g) == IF s = << >> THEN g ELSE SeqGcd(Tail(s), Gcd(Abs(Head(s)), g))

\* a trace pair in lowest terms
Traces(x, y, den) ==
    LET g == SeqGcd(x \o y, den)
    IN  [x |-> [ i \in 1..Len(x) |-> x[i] \div g ],
         y |-> [ i \in 1..Len(y) |-> y[i] \div g ],
         den |-> den \div g]

\* a Python slice s[lo:hi] with 0 <= lo and 0 <= hi already resolved
Slice(s, lo, hi) ==
    [ i \in 1..Max(0, Min(hi, Len(s)) - Min(lo, Len(s))) |-> s[Min(lo, Len(s)) + i] ]

\* core.rotate(x, y, degrees): the matrix [[cos, sin], [-sin, cos]] on every sample pair
rotate(t, a) ==
    Traces([ i \in 1..Len(t.x) |-> a.c * t.x[i] + a.s * t.y[i] ],
           [ i \in 1..Len(t.y) |-> a.c * t.y[i] - a.s * t.x[i] ],
           t.den * a.d)

\* core.lag(x, y, samps): x[samps:], y[:-samps] for samps > 0 and
\* x[:samps], y[-samps:] for samps < 0; the traces shorten by |samps|
lag(t, samps) ==
    IF samps = 0 THEN t
    ELSE IF samps > 0
      THEN Traces(Slice(t.x, samps, Len(t.x)),
                  Slice(t.y, 0, Max(Len(t.y) - samps, 0)), t.den)
      ELSE Traces(Slice(t.x, 0, Max(Len(t.x) + samps, 0)),
                  Slice(t.y, -samps, Len(t.y)), t.den)

\* core.split(x, y, degrees, samps): rotate to the fast direction, lag, rotate back
split(t, a, samps) == rotate(lag(rotate(t, a), samps), AngNeg(a))

\* core.unsplit(x, y, degrees, samps)
unsplit(t, a, samps) == split(t, a, -samps)

---------------------------------------------------------------------------
(* Window (data.py)                                                        *)

Window(width, offset, tukey) == [width |-> width, offset |-> offset, tukey |-> tukey]

\* int(a / 2) for a >= 0
Half(a) == a \div 2

\* Window.__init__: the width must be odd
WindowInitOk(width) == width % 2 = 1

\* Window.start(samps), for odd samps
WindowStart(w, samps) == Half(samps) + w.offset - Half(w.width)

\* Window.end(samps), for odd samps
WindowEnd(w, samps) == Half(samps) + w.offset + Half(w.width)

\* Window.asarray(samps): the array, 1 where the taper is written, or the
\* exception raised.  array[start:end+1] = tukey raises ValueError when
\* the slice, cut at the end of the array, and the taper differ in length
\* and the taper is longer than one sample (a single value is broadcast).
\* The taper is signal.tukey(width), width values; data.py does not bind
\* the name signal, which is read here as scipy.signal.
asarray(w, samps) ==
    IF samps % 2 # 1 THEN [raised |-> "Exception", array |-> << >>]
    ELSE IF WindowEnd(w, samps) > samps THEN [raised |-> "Exception", array |-> << >>]
    ELSE IF WindowStart(w, samps) < 0 THEN [raised |-> "Exception", array |-> << >>]
    ELSE LET start == WindowStart(w, samps)
             stop  == Min(WindowEnd(w, samps) + 1, samps)
         IN  IF stop - start # w.width /\ w.width # 1
               THEN [raised |-> "ValueError", array |-> << >>]
               ELSE [raised |-> "none",
                     array |-> [ i \in 1..samps |->
                                  IF start < i /\ i <= stop THEN 1 ELSE 0 ]]

---------------------------------------------------------------------------
(* Pair (pair.py) on Data (data.py)                                        *)

\* a cmpvecs matrix [[m11, m12], [m21, m22]] / d
Mat(m11, m12, m21, m22, d) ==
    [m11 |-> m11, m12 |-> m12, m21 |-> m21, m22 |-> m22, d |-> d]

\* np.eye(2)
Eye2 == Mat(1, 0, 0, 1, 1)

\* np.array([[cang, -sang], [sang, cang]]) of rotateto
RotMat(a) == Mat(a.c, -a.s, a.s, a.c, a.d)

\* Pair.data(): the two traces of a Pair
PairData(p) == [x |-> p.x, y |-> p.y, den |-> p.den]

\* Pair.cmpangs()[0]: the angle of the first column of cmpvecs
cmpang1(p) == Ang(p.cmpvecs.m11, p.cmpvecs.m21, p.cmpvecs.d)

\* the mutant of rotateto: the data is rotated by the new angle alone,
\* without backing off the present orientation
rotateto_nobackoff(p, a) ==
    LET new == RotMat(a)
        xy  == Traces([ i \in 1..Len(p.x) |-> new.m11 * p.x[i] + new.m21 * p.y[i] ],
                      [ i \in 1..Len(p.y) |-> new.m12 * p.x[i] + new.m22 * p.y[i] ],
                      p.den * new.d)
    IN  [p EXCEPT !.x = xy.x, !.y = xy.y, !.den = xy.den, !.cmpvecs = new]

\* Pair.rotateto(degrees): cmp1 lines up with the angle a
rotateto(p, a) ==
    LET backoff == p.cmpvecs
        new     == RotMat(a)
        \* rot = np.dot(self.cmpvecs.T, backoff), over new.d * backoff.d
        r11 == new.m11 * backoff.m11 + new.m21 * backoff.m21
        r12 == new.m11 * backoff.m12 + new.m21 * backoff.m22
        r21 == new.m12 * backoff.m11 + new.m22 * backoff.m21
        r22 == new.m12 * backoff.m12 + new.m22 * backoff.m22
        xy  == Traces([ i \in 1..Len(p.x) |-> r11 * p.x[i] + r12 * p.y[i] ],
                      [ i \in 1..Len(p.y) |-> r21 * p.x[i] + r22 * p.y[i] ],
                      p.den * new.d * backoff.d)
    IN  [p EXCEPT !.x = xy.x, !.y = xy.y, !.den = xy.den, !.cmpvecs = new]

\* the traces of xy put into the Pair p
WithData(p, xy) == [p EXCEPT !.x = xy.x, !.y = xy.y, !.den = xy.den]

\* the mutant of split_samps: the nearest sample count, even or odd
split_samps_near(p, lagtime) == Rint(lagtime.n, lagtime.d * p.delta)

\* Pair.split and Pair.unsplit, lines 88 and 104: the time shift converted
\* to a number of samples with mode='even'
split_samps(p, lagtime) == time2samps_even(lagtime, p.delta)

\* the mutant of PairUnsplit: the forward operator applied again
PairUnsplit_forward(p, fast, lagtime) ==
    LET samps    == split_samps(p, lagtime)
        origangs == cmpang1(p)
        p0       == rotateto(p, Deg0)
    IN  rotateto(WithData(p0, split(PairData(p0), fast, samps)), origangs)

\* Pair.split(fast, lag)
PairSplit(p, fast, lagtime) ==
    LET samps    == split_samps(p, lagtime)
        origangs == cmpang1(p)
        p0       == rotateto(p, Deg0)
    IN  rotateto(WithData(p0, split(PairData(p0), fast, samps)), origangs)

\* Pair.unsplit(fast, lag)
PairUnsplit(p, fast, lagtime) ==
    LET samps    == split_samps(p, lagtime)
        origangs == cmpang1(p)
        p0       == rotateto(p, Deg0)
    IN  rotateto(WithData(p0, unsplit(PairData(p0), fast, samps)), origangs)

\* core.odd(x) for x = n / 3: 2 * rint(ceil(x / 2)) - 1
odd_third(n) == 2 * ((n + 5) \div 6) - 1

\* Data.__init__ through Pair(x, y, delta=delta): the Pair constructed
NewPair(x, y, delta) ==
    [x |-> x, y |-> y, den |-> 1, delta |-> delta, geom |-> "geo",
     cmpvecs |-> Eye2, window |-> Window(odd_third(Len(x)), 0, "None")]

\* Window.__eq__: same class and same attribute names (all Windows have
\* width, offset and tukey); the values are not compared
WindowEq(w1, w2) == DOMAIN w1 = DOMAIN w2

\* np.all(a == b) for two 1-d arrays over the denominators da and db:
\* element by element, an array of one element broadcast over the other
ArrayEq(a, da, b, db) ==
    IF Len(a) = Len(b) THEN \A i \in 1..Len(a) : a[i] * db = b[i] * da
    ELSE IF Len(a) = 1 THEN \A i \in 1..Len(b) : a[1] * db = b[i] * da
    ELSE IF Len(b) = 1 THEN \A i \in 1..Len(a) : a[i] * db = b[1] * da
    ELSE FALSE

\* Pair.__eq__ (and Data.__eq__): same class, same attribute names, and
\* np.all(==) true for every attribute; the window is compared by Window.__eq__
PairEq(p, q) ==
    /\ DOMAIN p = DOMAIN q
    /\ ArrayEq(p.x, p.den, q.x, q.den)
    /\ ArrayEq(p.y, p.den, q.y, q.den)
    /\ p.delta = q.delta
    /\ p.geom = q.geom
    /\ p.cmpvecs = q.cmpvecs
    /\ WindowEq(p.window, q.window)

\* core.time2samps(t, delta), mode 'near': rint(t / delta)
time2samps_near(t, delta) == Rint(t.n, t.d * delta)

\* Data.construct_window(start, end, tukey): the Window, or the error raised
construct_window(p, start, end, tukey) ==
    IF start > end THEN [raised |-> "ValueError", window |-> p.window]
    ELSE LET time_centre == Rat(start + end, 2)
             time_width  == Rat(end - start, 1)
             tcs         == time2samps_near(time_centre, p.delta)
             offset      == tcs - Half(Len(p.x))
             width       == time2samps_even(time_width, p.delta) + 1
         IN  IF WindowInitOk(width)
               THEN [raised |-> "none", window |-> Window(width, offset, tukey)]
               ELSE [raised |-> "Exception", window |-> p.window]

\* no Pair
NoPair == [x |-> << >>, y |-> << >>, den |-> 0]

HistNone ==
    [op |-> "none", fast |-> Deg0, prev |-> Deg0, lag |-> Rat(0, 1), before |-> NoPair]

\* the sample values of the Pairs tried: two traces without repeated values
TraceX(n) == [ i \in 1..n |-> 3 * i - 7 ]

TraceY(n) == [ i \in 1..n |-> i * i + 1 ]

OddLens == { n \in 1..MaxN : n % 2 = 1 }

\* the angles given to rotateto, split and unsplit
Angles == { Deg0, Deg90, Deg53, DegM53 }

PairLags == { Rat(n, 1) : n \in 1..MaxPairLag }

PairInit ==
    /\ pair \in { NewPair(TraceX(n), TraceY(n), d) : n \in OddLens, d \in 1..MaxDelta }
    /\ hist = [HistNone EXCEPT !.op = "new"]

\* a call of Pair.rotateto; after a rotateto the history keeps the Pair from
\* before the first rotateto of the run and the angle of the one before
Rotateto ==
    \E a \in Angles :
        /\ pair' = rotateto(pair, a)
        /\ hist' = IF hist.op \in {"rotateto", "rotateto;rotateto"}
                     THEN [hist EXCEPT !.op = "rotateto;rotateto",
                                       !.prev = hist.fast, !.fast = a]
                     ELSE [HistNone EXCEPT !.op = "rotateto", !.fast = a, !.before = pair]
        /\ UNCHANGED <<grid, errs, twin, call, gs, eig>>

\* a call of Pair.split
Split ==
    \E a \in Angles, t \in PairLags :
        /\ pair' = PairSplit(pair, a, t)
        /\ hist' = [op |-> "split", fast |-> a, prev |-> Deg0, lag |-> t, before |-> pair]
        /\ UNCHANGED <<grid, errs, twin, call, gs, eig>>

\* a call of Pair.unsplit; after a split with the same arguments the
\* history keeps the Pair from before the split
Unsplit ==
    \E a \in Angles, t \in PairLags :
        /\ pair' = PairUnsplit(pair, a, t)
        /\ hist' = IF hist.op = "split" /\ hist.fast = a /\ hist.lag = t
                     THEN [hist EXCEPT !.op = "split;unsplit"]
                     ELSE [HistNone EXCEPT !.op = "unsplit", !.fast = a, !.lag = t]
        /\ UNCHANGED <<grid, errs, twin, call, gs, eig>>

\* a + b for two angles
AngAdd(a, b) == AngSubOf(a, AngNeg(b))

\* C17: after rotateto(a) followed by rotateto(b) the Pair is the Pair that
\* rotateto(b) alone gives, samples and cmpvecs; and the traces rotated by a
\* and then by b are the traces rotated once by a + b.
C17_RotationComposes ==
    hist.op = "rotateto;rotateto" =>
        /\ pair = rotateto(hist.before, hist.fast)
        /\ pair.cmpvecs = RotMat(hist.fast)
        /\ LET d == PairData(hist.before)
           IN  rotate(rotate(d, hist.prev), hist.fast)
                   = rotate(d, AngAdd(hist.prev, hist.fast))

\* C17 witness: rotateto(atan2(4, 3)) then rotateto(-atan2(4, 3)) on a Pair
\* of three samples or more that was at neither angle before.
C17_Witness ==
    /\ hist.op = "rotateto;rotateto"
    /\ hist.prev = Deg53
    /\ hist.fast = DegM53
    /\ hist.before.cmpvecs = RotMat(Deg90)
    /\ Len(pair.x) >= 3
    /\ pair # hist.before

\* C5: after split(a, s) followed by unsplit(a, s) the Pair holds, sample
\* for sample, the middle of the Pair it was before the split: s samples are
\* cut from each end, the rest is restored exactly, in the same orientation.
C5_UnsplitInvertsSplit ==
    hist.op = "split;unsplit" =>
        LET s == time2samps_even(hist.lag, pair.delta)
            b == hist.before
        IN  /\ Len(pair.x) = Max(Len(b.x) - 2 * s, 0)
            /\ Len(pair.y) = Len(pair.x)
            /\ pair.cmpvecs = b.cmpvecs
            /\ \A i \in 1..Len(pair.x) :
                  /\ pair.x[i] * b.den = b.x[i + s] * pair.den
                  /\ pair.y[i] * b.den = b.y[i + s] * pair.den

\* C5 witness: a split and unsplit by a non-zero even lag along an oblique
\* fast direction, on a Pair not at angle 0, with samples left to compare.
C5_Witness ==
    /\ hist.op = "split;unsplit"
    /\ hist.fast = Deg53
    /\ time2samps_even(hist.lag, pair.delta) = 2
    /\ Len(pair.x) >= 1
    /\ pair.cmpvecs = RotMat(DegM53)

\* C6 (as claimed): in every state of a Pair x and y have the same length
\* and that length is odd.
C6_EqualOddLengths ==
    /\ Len(pair.x) = Len(pair.y)
    /\ Len(pair.x) % 2 = 1

CallNone == [op |-> "none", raised |-> "none"]

\* the windows given to the window setter and to set_window(window=...)
WindowsTried ==
    { Window(w, o, t) : w \in { k \in 1..(MaxN + 2) : k % 2 = 1 },
                        o \in (-MaxOffset)..MaxOffset, t \in {"None"} }
    \cup { Window(w, 0, "half") : w \in {1, 3} }

WindowInit ==
    /\ pair \in { NewPair(TraceX(n), TraceY(n), d) : n \in OddLens, d \in 1..MaxDelta }
    /\ hist = HistNone
    /\ twin = NoPair
    /\ call = CallNone

\* Window(width, ...) with an even width: Window.__init__ raises
NewWindowEven ==
    \E width \in { k \in 0..(MaxN + 2) : ~WindowInitOk(k) } :
        /\ call' = [op |-> "Window", raised |-> "Exception"]
        /\ UNCHANGED <<grid, errs, pair, hist, twin, gs, eig>>

\* pair.window = Window(...) or pair.set_window(window=Window(...))
SetWindow ==
    \E w \in WindowsTried :
        /\ pair' = [pair EXCEPT !.window = w]
        /\ call' = [op |-> "set_window", raised |-> "none"]
        /\ UNCHANGED <<grid, errs, hist, twin, gs, eig>>

\* pair.set_window(start, end) or pair.set_window(start, end, tukey=...)
SetWindowTimes ==
    \E start \in 0..MaxWinTime, end \in 0..MaxWinTime, t \in {"None", "half"} :
        LET r == construct_window(pair, start, end, t)
        IN  /\ pair' = [pair EXCEPT !.window = r.window]
            /\ call' = [op |-> "set_window", raised |-> r.raised]
            /\ UNCHANGED <<grid, errs, hist, twin, gs, eig>>

\* twin = pair.copy(): io.copy(self), a deep copy; data.py does not bind
\* the name io, which is read here as the io module of the package
Copy ==
    /\ twin' = pair
    /\ call' = [op |-> "copy", raised |-> "none"]
    /\ UNCHANGED <<grid, errs, pair, hist, gs, eig>>

\* pair.window.asarray(pair._nsamps())
Asarray ==
    LET r == asarray(pair.window, Len(pair.x))
    IN  /\ call' = [op |-> "asarray", raised |-> r.raised, array |-> r.array]
        /\ UNCHANGED <<grid, errs, pair, hist, twin, gs, eig>>

\* C7 (as claimed): a Pair and its copy compare equal exactly when every
\* attribute, the window's width, offset and taper included, is equal.
C7_EqualIffAllAttributesEqual ==
    twin # NoPair => (PairEq(pair, twin) <=> pair = twin)

\* C8 (as claimed): on a trace of odd length N the window runs from
\* floor(N/2) + offset - floor(width/2) to floor(N/2) + offset + floor(width/2),
\* width samples in all; asarray(N) succeeds only if 0 <= start and
\* end <= N - 1, and raises whenever start < 0 or end > N - 1.
C8_WindowAcceptedOnlyInsideTrace ==
    call.op = "asarray" =>
        LET n     == Len(pair.x)
            w     == pair.window
            start == (n \div 2) + w.offset - (w.width \div 2)
            end   == (n \div 2) + w.offset + (w.width \div 2)
        IN  /\ WindowStart(w, n) = start
            /\ WindowEnd(w, n) = end
            /\ end - start + 1 = w.width
            /\ call.raised = "none" => (0 <= start /\ end <= n - 1)
            /\ (start < 0 \/ end > n - 1) => call.raised # "none"

\* C9 (as claimed): a Pair never holds a window wider than its trace.
C9_NoWindowWiderThanTrace == pair.window.width <= Len(pair.x)

---------------------------------------------------------------------------
(* Construction of a Pair and its property setters (pair.py, data.py)      *)

\* a keyword that is not given
Absent == [given |-> FALSE, val |-> 0]

\* a keyword given with the value v
Given(v) == [given |-> TRUE, val |-> v]

\* the geometry tags the geom setter accepts
possible_geoms == {"geo", "ray", "cart"}

\* the mutant of DataInit: the check of the number of samples is left out
DataInit_anysize(x, y, ndim, kw) ==
    IF ~kw.delta.given THEN [raised |-> "Exception", obj |-> NoPair]
    ELSE IF kw.delta.val <= 0 THEN [raised |-> "ValueError", obj |-> NoPair]
    ELSE IF ndim # 1 THEN [raised |-> "Exception", obj |-> NoPair]
    ELSE IF Len(x) # Len(y) THEN [raised |-> "Exception", obj |-> NoPair]
    ELSE IF kw.geom.given /\ kw.geom.val \notin possible_geoms
      THEN [raised |-> "ValueError", obj |-> NoPair]
    ELSE [raised |-> "none",
          obj |-> [x |-> x, y |-> y, den |-> 1, delta |-> kw.delta.val,
                   geom |-> IF kw.geom.given THEN kw.geom.val ELSE "geo",
                   cmpvecs |-> IF kw.cmpvecs.given THEN kw.cmpvecs.val ELSE Eye2,
                   window |-> Window(odd_third(Len(x)), 0, "None")]]

\* Data.__init__(x, y, **kw) for arrays x and y of ndim dimensions: the
\* object constructed, or the error raised by the first check that fails
DataInit(x, y, ndim, kw) ==
    IF ~kw.delta.given THEN [raised |-> "Exception", obj |-> NoPair]
    ELSE IF kw.delta.val <= 0 THEN [raised |-> "ValueError", obj |-> NoPair]
    ELSE IF ndim # 1 THEN [raised |-> "Exception", obj |-> NoPair]
    ELSE IF Len(x) % 2 = 0 THEN [raised |-> "Exception", obj |-> NoPair]
    ELSE IF Len(x) # Len(y) THEN [raised |-> "Exception", obj |-> NoPair]
    ELSE IF kw.geom.given /\ kw.geom.val \notin possible_geoms
      THEN [raised |-> "ValueError", obj |-> NoPair]
    ELSE [raised |-> "none",
          obj |-> [x |-> x, y |-> y, den |-> 1, delta |-> kw.delta.val,
                   geom |-> IF kw.geom.given THEN kw.geom.val ELSE "geo",
                   cmpvecs |-> IF kw.cmpvecs.given THEN kw.cmpvecs.val ELSE Eye2,
                   window |-> Window(odd_third(Len(x)), 0, "None")]]

\* Pair.__init__(x, y, **kw) with two positional arguments: both must be
\* numpy arrays, then Data.__init__
PairNew(x, y, ndim, arrays, kw) ==
    IF ~arrays THEN [raised |-> "TypeError", obj |-> NoPair]
    ELSE DataInit(x, y, ndim, kw)

\* the mutant of set_delta: the value is stored without the check
set_delta_unchecked(p, d) == [raised |-> "none", obj |-> [p EXCEPT !.delta = d]]

\* the delta setter: the Pair after pair.delta = d, or the error raised
set_delta(p, d) ==
    IF d <= 0 THEN [raised |-> "ValueError", obj |-> p]
    ELSE [raised |-> "none", obj |-> [p EXCEPT !.delta = d]]

\* the cmpvecs keywords tried: a rotation, a stretch and a shear
CmpvecsTried == { RotMat(Deg53), Mat(2, 0, 0, 1, 1), Mat(1, 1, 0, 1, 1) }

\* the keywords of the constructions tried
DataKeywords ==
    { [delta |-> d, geom |-> g, cmpvecs |-> c] :
        d \in { Absent } \cup { Given(v) : v \in (-1)..MaxDelta },
        g \in { Absent } \cup { Given(v) : v \in possible_geoms \cup {"xyz"} },
        c \in { Absent } \cup { Given(v) : v \in CmpvecsTried } }

DataStart == pair = NoPair /\ hist = HistNone /\ twin = NoPair /\ call = CallNone

\* Pair(x, y, **kw)
Construct ==
    /\ pair = NoPair
    /\ call = CallNone
    /\ \E n \in 0..MaxN, m \in 0..MaxN, ndim \in 1..2, arrays \in BOOLEAN, kw \in DataKeywords :
          LET r == PairNew(TraceX(n), TraceY(m), ndim, arrays, kw)
          IN  /\ pair' = r.obj
              /\ call' = [op |-> "Pair", raised |-> r.raised, xlen |-> n, ylen |-> m,
                          ndim |-> ndim, arrays |-> arrays, kw |-> kw]
    /\ UNCHANGED <<grid, errs, hist, twin, gs, eig>>

\* pair.delta = d
SetDelta ==
    /\ pair # NoPair
    /\ \E d \in (-1)..(MaxDelta + 1) :
          LET r == set_delta(pair, d)
          IN  /\ pair' = r.obj
              /\ call' = [op |-> "set_delta", raised |-> r.raised, val |-> d]
    /\ UNCHANGED <<grid, errs, hist, twin, gs, eig>>

\* pair.rotateto(a) on the Pair constructed
RotatetoData ==
    /\ pair # NoPair
    /\ \E a \in Angles :
          /\ pair' = rotateto(pair, a)
          /\ call' = [op |-> "rotateto", raised |-> "none", val |-> a]
    /\ UNCHANGED <<grid, errs, hist, twin, gs, eig>>

\* EigenM(pair), lines 30 and 35: self.data is the caller's Pair itself, and
\* self.data.rotateto(0) acts on it; before keeps the Pair as it was handed
\* over
EigenMNew ==
    /\ pair # NoPair
    /\ eig.pc = "idle"
    /\ pair' = rotateto(pair, Deg0)
    /\ call' = [op |-> "EigenM", raised |-> "none", val |-> Deg0]
    /\ eig' = [pc |-> "new", before |-> pair]
    /\ UNCHANGED <<grid, errs, hist, twin, gs>>

\* C29 (as claimed): right after an EigenM is constructed from a Pair, the
\* Pair has the samples and the orientation it had before.
C29_EigenMLeavesPairUnchanged ==
    call.op = "EigenM" =>
        /\ pair.x = eig.before.x
        /\ pair.y = eig.before.y
        /\ pair.den = eig.before.den
        /\ pair.cmpvecs = eig.before.cmpvecs

Orthonormal(m) ==
    /\ m.m11 * m.m11 + m.m21 * m.m21 = m.d * m.d
    /\ m.m12 * m.m12 + m.m22 * m.m22 = m.d * m.d
    /\ m.m11 * m.m12 + m.m21 * m.m22 = 0

\* C15 (as claimed): the cmpvecs of a Pair is orthonormal in every state,
\* after a construction with a cmpvecs keyword included.
C15_CmpvecsOrthonormal == pair # NoPair => Orthonormal(pair.cmpvecs)

\* C16: the delta of a Pair is positive in every state; it changes only in
\* an assignment pair.delta = d with d > 0, to d; an assignment of d <= 0
\* raises ValueError and leaves the Pair as it was.
C16_DeltaStaysPositive ==
    [][ /\ pair' # NoPair => pair'.delta > 0
        /\ (pair # NoPair /\ pair'.delta # pair.delta) =>
              /\ call'.op = "set_delta"
              /\ call'.raised = "none"
              /\ call'.val > 0
              /\ pair'.delta = call'.val
        /\ (call'.op = "set_delta" /\ call'.val <= 0) =>
              (call'.raised = "ValueError" /\ pair' = pair) ]_vars

\* C16 witness: the assignment of 0 to the delta of a Pair whose delta had
\* been set to 2 has raised, and the delta is still 2.
C16_Witness ==
    /\ call.op = "set_delta"
    /\ call.val = 0
    /\ call.raised = "ValueError"
    /\ pair # NoPair
    /\ pair.delta = 2

---------------------------------------------------------------------------
(* Measure.gridsearch (measure.py)                                         *)

GsIdle == [pc |-> "idle"]

\* a - b for two angles
AngSub(a, b) == AngSubOf(a, b)

\* no correction: the attribute is None
NoCorr == [given |-> FALSE, phi |-> Deg0, samps |-> 0]

\* Measure.__init__, a correction keyword (deg, lag): the private tuple
\* (deg, samps) with samps the even sample count of lag
Corr(deg, lagtime, delta) ==
    [given |-> TRUE, phi |-> deg, samps |-> time2samps_even(lagtime, delta)]

\* Measure.__init__: the Measure built from data, the degs array, the lags
\* keyword and the two correction keywords
NewMeasure(data, degs, lagskw, rcvcorr, srccorr) ==
    [data |-> data, degs |-> degs,
     slags |-> get_lags_and_slags(lagskw, data.window.width, data.delta).slags,
     rcvcorr |-> rcvcorr, srccorr |-> srccorr]

\* Data._w0(): the first sample of the window
w0(p) == WindowStart(p.window, Len(p.x))

\* Data._w1(): the last sample of the window
w1(p) == WindowEnd(p.window, Len(p.x))

\* the mutant of win: the window shrinks by ds on each side
win_shrink(s0, s1, shift) ==
    LET ds == Abs(shift) \div 2
    IN  [s0 |-> s0 + ds, s1 |-> s1 - ds]

\* the mutant of win: the sign of the shift is kept
win_signed(s0, s1, shift) ==
    LET ds == shift \div 2
    IN  [s0 |-> s0 - ds, s1 |-> s1 - ds]

\* win(shift) of gridsearch
win(s0, s1, shift) ==
    LET ds == Abs(shift) \div 2
    IN  [s0 |-> s0 - ds, s1 |-> s1 - ds]

\* core.chop(x, y, s0, s1): the samples s0..s1, or WindowOutOfRangeError
\* when s0 or s1 falls outside the trace
chop(t, s0, s1) ==
    IF s0 < 0 \/ s1 > Len(t.x) - 1
      THEN [raised |-> "WindowOutOfRangeError", xy |-> t]
      ELSE [raised |-> "none",
            xy |-> Traces(Slice(t.x, s0, s1 + 1), Slice(t.y, s0, s1 + 1), t.den)]

\* self.func(x, y): the score, a function of the samples it is given
func(t) == t

\* the mutant of gridsearch_begin: self.data itself is rotated to angle 0
gridsearch_begin_inplace(g) ==
    LET copy == rotateto(g.m.data, Deg0)
        xy   == PairData(copy)
    IN  IF (g.kw.rcvcorr /\ ~g.m.rcvcorr.given) \/ (g.kw.srccorr /\ ~g.m.srccorr.given)
          THEN [g EXCEPT !.pc = "raised", !.raised = "AttributeError", !.m.data = copy]
          ELSE [g EXCEPT !.pc = "prerot", !.m.data = copy,
                         !.s0 = w0(g.m.data), !.s1 = w1(g.m.data),
                         !.xy = IF g.kw.rcvcorr
                                  THEN unsplit(xy, g.m.rcvcorr.phi, g.m.rcvcorr.samps)
                                  ELSE xy]

\* gridsearch, lines 83-120: the copy at angle 0, the window samples, the
\* receiver correction removed and the two private tuples looked up; g is
\* the activation, with the Measure g.m and the keywords g.kw of the call
gridsearch_begin(g) ==
    LET copy == rotateto(g.m.data, Deg0)
        xy   == PairData(copy)
    IN  IF (g.kw.rcvcorr /\ ~g.m.rcvcorr.given) \/ (g.kw.srccorr /\ ~g.m.srccorr.given)
          THEN [g EXCEPT !.pc = "raised", !.raised = "AttributeError"]
          ELSE [g EXCEPT !.pc = "prerot",
                         !.s0 = w0(g.m.data), !.s1 = w1(g.m.data),
                         !.xy = IF g.kw.rcvcorr
                                  THEN unsplit(xy, g.m.rcvcorr.phi, g.m.rcvcorr.samps)
                                  ELSE xy]

\* gridsearch, line 132: the next element of prerot
gridsearch_prerot(g) ==
    LET k == Len(g.prerot) + 1
    IN  [g EXCEPT !.prerot = Append(@, rotate(g.xy, g.m.degs[k])),
                  !.pc = IF k = Len(g.m.degs) THEN "nodes" ELSE "prerot"]

\* the mutant of getout: the window moves with the number of nodes
\* evaluated before
getout_counting(g, xy, ang, shift) ==
    LET a == lag(xy, -shift)
        b == IF g.kw.srccorr
               THEN unsplit(a, AngSub(g.m.srccorr.phi, ang), g.m.srccorr.samps)
               ELSE a
        w == win(g.s0, g.s1, shift + 2 * g.calls)
        c == chop(b, w.s0, w.s1)
    IN  IF c.raised # "none" THEN [raised |-> c.raised, score |-> c.xy]
        ELSE IF g.kw.mode = "rotpol"
          THEN IF ~g.kw.pol.given THEN [raised |-> "KeyError", score |-> c.xy]
               ELSE [raised |-> "none",
                     score |-> func(rotate(c.xy, AngSub(g.kw.pol.ang, ang)))]
        ELSE [raised |-> "none", score |-> func(c.xy)]

\* getout(x, y, ang, shift) of gridsearch: the score, or the error raised
getout(g, xy, ang, shift) ==
    LET a == lag(xy, -shift)
        b == IF g.kw.srccorr
               THEN unsplit(a, AngSub(g.m.srccorr.phi, ang), g.m.srccorr.samps)
               ELSE a
        w == win(g.s0, g.s1, shift)
        c == chop(b, w.s0, w.s1)
    IN  IF c.raised # "none" THEN [raised |-> c.raised, score |-> c.xy]
        ELSE IF g.kw.mode = "rotpol"
          THEN IF ~g.kw.pol.given THEN [raised |-> "KeyError", score |-> c.xy]
               ELSE [raised |-> "none",
                     score |-> func(rotate(c.xy, AngSub(g.kw.pol.ang, ang)))]
        ELSE [raised |-> "none", score |-> func(c.xy)]

\* the surface with one more score in its last row, row i
Stored(out, i, score) ==
    IF Len(out) < i THEN Append(out, << score >>)
    ELSE [out EXCEPT ![i] = Append(@, score)]

\* the mutant of gridsearch_node: a node that raises is skipped
gridsearch_node_skip(g) ==
    LET r    == getout(g, g.prerot[g.i], g.m.degs[g.i], g.m.slags[g.j])
        last == g.j = Len(g.m.slags)
    IN  [g EXCEPT !.out = IF r.raised # "none" THEN @ ELSE Stored(@, g.i, r.score),
                  !.calls = IF r.raised # "none" THEN @ ELSE @ + 1,
                  !.i = IF last THEN @ + 1 ELSE @,
                  !.j = IF last THEN 1 ELSE @ + 1]

\* the mutant of gridsearch_node: the objective is called a second time
\* for the same node
gridsearch_node_retry(g) ==
    LET r    == getout(g, g.prerot[g.i], g.m.degs[g.i], g.m.slags[g.j])
        last == g.j = Len(g.m.slags)
    IN  IF r.raised # "none"
          THEN [g EXCEPT !.pc = "raised", !.raised = r.raised]
          ELSE [g EXCEPT !.out = Stored(@, g.i, r.score),
                         !.calls = @ + 2,
                         !.i = IF last THEN @ + 1 ELSE @,
                         !.j = IF last THEN 1 ELSE @ + 1]

\* gridsearch, lines 134-135: the node (degs[i], slags[j]) of the double
\* loop; an error raised in getout leaves gridsearch
gridsearch_node(g) ==
    LET r    == getout(g, g.prerot[g.i], g.m.degs[g.i], g.m.slags[g.j])
        last == g.j = Len(g.m.slags)
    IN  IF r.raised # "none"
          THEN [g EXCEPT !.pc = "raised", !.raised = r.raised]
          ELSE [g EXCEPT !.out = Stored(@, g.i, r.score),
                         !.calls = @ + 1,
                         !.i = IF last THEN @ + 1 ELSE @,
                         !.j = IF last THEN 1 ELSE @ + 1]

\* the keywords of a gridsearch call
GsKeywords ==
    { [rcvcorr |-> r, srccorr |-> c, mode |-> "none", pol |-> [given |-> FALSE, ang |-> Deg0]] :
        r \in BOOLEAN, c \in BOOLEAN }
    \cup { [rcvcorr |-> FALSE, srccorr |-> FALSE, mode |-> "rotpol", pol |-> pl] :
             pl \in { [given |-> FALSE, ang |-> Deg0], [given |-> TRUE, ang |-> Deg53] } }

\* the data of the Measures tried: at angle 0 or at atan2(4, 3), with a
\* window of 1 or 3 samples around the middle of the trace
GsData ==
    { rotateto([NewPair(TraceX(n), TraceY(n), 1) EXCEPT !.window = Window(w, o, "None")], a) :
        n \in { k \in OddLens : k >= 3 }, w \in {1, 3},
        o \in (-MaxGsOffset)..MaxGsOffset, a \in { Deg0, Deg53 } }

\* the degs arrays tried
GsDegs == { << Deg0 >>, << DegM53, Deg53 >>, << Deg0, Deg90 >> }

\* the lags arrays tried
GsLags ==
    { [kind |-> "array", vals |-> << Rat(a, 1), Rat(b, 1) >>] :
        a \in 0..MaxGsLag, b \in 0..MaxGsLag }

\* the Measures tried
GsMeasures ==
    { NewMeasure(d, degs, lagskw, rc, sc) :
        d \in GsData, degs \in GsDegs, lagskw \in GsLags,
        rc \in { NoCorr, Corr(Deg53, Rat(2, 1), 1) },
        sc \in { NoCorr, Corr(Deg90, Rat(2, 1), 1) } }

\* no earlier call of gridsearch on the Measure
GsFirstNone == [pc |-> "none", raised |-> "none", ret |-> << >>]

GsInit ==
    gs \in { [pc |-> "configured", m |-> m, kw |-> kw, xy |-> NoPair, s0 |-> 0, s1 |-> 0,
              prerot |-> << >>, i |-> 1, j |-> 1, out |-> << >>, calls |-> 0,
              raised |-> "none", ret |-> << >>, first |-> GsFirstNone] :
             m \in GsMeasures, kw \in GsKeywords }

\* measure.gridsearch(**kw) is entered
GsBegin ==
    /\ gs.pc = "configured"
    /\ gs' = gridsearch_begin(gs)
    /\ UNCHANGED <<grid, errs, pair, hist, twin, call, eig>>

\* one rotation of the list prerot
GsPrerot ==
    /\ gs.pc = "prerot"
    /\ gs' = gridsearch_prerot(gs)
    /\ UNCHANGED <<grid, errs, pair, hist, twin, call, eig>>

\* one node of the double loop
GsNode ==
    /\ gs.pc = "nodes"
    /\ gs.i <= Len(gs.m.degs)
    /\ gs' = gridsearch_node(gs)
    /\ UNCHANGED <<grid, errs, pair, hist, twin, call, eig>>

\* gridsearch, line 137: return out
GsReturn ==
    /\ gs.pc = "nodes"
    /\ gs.i > Len(gs.m.degs)
    /\ gs' = [gs EXCEPT !.pc = "returned", !.ret = gs.out]
    /\ UNCHANGED <<grid, errs, pair, hist, twin, call, eig>>

\* measure.gridsearch(**kw) is called a second time on the same Measure
\* with the same keywords, after the first call has returned or raised; the
\* outcome of the first call is kept in first
GsAgain ==
    /\ gs.pc \in {"returned", "raised"}
    /\ gs.first = GsFirstNone
    /\ gs' = [gs EXCEPT !.first = [pc |-> gs.pc, raised |-> gs.raised, ret |-> gs.ret],
                        !.pc = "configured", !.xy = NoPair, !.s0 = 0, !.s1 = 0,
                        !.prerot = << >>, !.i = 1, !.j = 1, !.out = << >>,
                        !.calls = 0, !.raised = "none", !.ret = << >>]
    /\ UNCHANGED <<grid, errs, pair, hist, twin, call, eig>>

\* the window of the node with lag shift falls outside the trace that
\* gridsearch chops: the trace of the data, shortened by the receiver
\* correction, by the lag shift and by the source correction
GsOutside(g, shift) ==
    LET n0 == Len(g.m.data.x)
        n1 == IF g.kw.rcvcorr THEN Max(n0 - Abs(g.m.rcvcorr.samps), 0) ELSE n0
        n2 == Max(n1 - Abs(shift), 0)
        n3 == IF g.kw.srccorr THEN Max(n2 - Abs(g.m.srccorr.samps), 0) ELSE n2
        ds == Abs(shift) \div 2
        lo == WindowStart(g.m.data.window, n0) - ds
        hi == WindowEnd(g.m.data.window, n0) - ds
    IN  lo < 0 \/ hi > n3 - 1

\* the nodes evaluated before the node (i, j), as pairs of indices
GsDone(g) ==
    { n \in (1..Len(g.m.degs)) \X (1..Len(g.m.slags)) :
        n[1] < g.i \/ (n[1] = g.i /\ n[2] < g.j) }

\* C4: a node whose lag-adjusted window falls outside the shortened trace
\* ends gridsearch with WindowOutOfRangeError: every node passed by the
\* double loop had its window inside the trace and has its score stored,
\* the error names the first offending node, nothing is returned after it,
\* and a returned surface is full.
C4_OutOfRangeWindowAbortsSearch ==
    /\ gs.pc \in {"nodes", "returned", "raised"} /\ gs.raised # "AttributeError" =>
          /\ \A n \in GsDone(gs) : ~GsOutside(gs, gs.m.slags[n[2]])
          /\ gs.calls = Cardinality(GsDone(gs))
    /\ gs.pc = "raised" /\ gs.raised = "WindowOutOfRangeError" =>
          /\ GsOutside(gs, gs.m.slags[gs.j])
          /\ gs.ret = << >>
    /\ gs.pc = "raised" /\ gs.raised = "KeyError" => ~GsOutside(gs, gs.m.slags[gs.j])
    /\ gs.pc = "returned" =>
          /\ \A j \in 1..Len(gs.m.slags) : ~GsOutside(gs, gs.m.slags[j])
          /\ Len(gs.ret) = Len(gs.m.degs)
          /\ \A i \in 1..Len(gs.ret) : Len(gs.ret[i]) = Len(gs.m.slags)

\* C4 witness: gridsearch has raised WindowOutOfRangeError at a node with a
\* non-zero lag after it has stored the score of an earlier node.
C4_Witness ==
    /\ gs.pc = "raised"
    /\ gs.raised = "WindowOutOfRangeError"
    /\ gs.m.slags[gs.j] > 0
    /\ gs.calls >= 1
    /\ gs.ret = << >>

\* the traces of the data at angle 0, as gridsearch copies them
GsCanonical(g) == PairData(rotateto(g.m.data, Deg0))

\* C18 (as claimed): gridsearch on a Measure constructed with rcvcorr works
\* on the angle-0 traces with that correction removed once, and every
\* element of prerot is a rotation of those; on a Measure constructed
\* without rcvcorr it works on the angle-0 traces as they are and does not
\* fail for the missing correction.
C18_ReceiverCorrectionRemovedOnce ==
    /\ gs.pc \in {"prerot", "nodes", "returned"} =>
          /\ gs.xy = IF gs.m.rcvcorr.given
                       THEN unsplit(GsCanonical(gs), gs.m.rcvcorr.phi, gs.m.rcvcorr.samps)
                       ELSE GsCanonical(gs)
          /\ \A k \in 1..Len(gs.prerot) : gs.prerot[k] = rotate(gs.xy, gs.m.degs[k])
    /\ (gs.pc # "configured" /\ ~gs.m.rcvcorr.given
           /\ (gs.kw.srccorr => gs.m.srccorr.given)) => gs.raised # "AttributeError"

\* the score of the node (degs[i], slags[j]) computed from prerot[i] by the
\* steps of the inner loop: the lag removed, the source correction removed
\* if withsrc, the samples lo..hi kept, the rotation to pol in rotpol mode
GsExpected(g, i, j, withsrc, lo, hi) ==
    LET ang   == g.m.degs[i]
        shift == g.m.slags[j]
        a     == lag(g.prerot[i], -shift)
        b     == IF withsrc
                   THEN unsplit(a, AngSub(g.m.srccorr.phi, ang), g.m.srccorr.samps)
                   ELSE a
        c     == Traces(Slice(b.x, lo, hi + 1), Slice(b.y, lo, hi + 1), b.den)
    IN  IF g.kw.mode = "rotpol" THEN func(rotate(c, AngSub(g.kw.pol.ang, ang)))
        ELSE func(c)

\* the nodes whose score is stored, as pairs of indices
GsStored(g) ==
    { n \in (1..Len(g.out)) \X (1..Len(g.m.slags)) : n[2] <= Len(g.out[n[1]]) }

\* the first and the last sample of the window of the Measure's data
GsS0(g) == WindowStart(g.m.data.window, Len(g.m.data.x))

GsS1(g) == WindowEnd(g.m.data.window, Len(g.m.data.x))

\* C19 (as claimed): every stored score is the objective of prerot[i] with
\* the lag removed, then the source correction removed at srcphi - ang when
\* the Measure was constructed with srccorr, then chopped to the window of
\* the node, then rotated by pol - ang in rotpol mode only; and the
\* objective was called once for every stored score.
C19_NodeStepsInOrder ==
    gs.pc \in {"nodes", "returned", "raised"} =>
        /\ \A n \in GsStored(gs) :
              LET ds == Abs(gs.m.slags[n[2]]) \div 2
              IN  gs.out[n[1]][n[2]] =
                      GsExpected(gs, n[1], n[2], gs.m.srccorr.given,
                                 GsS0(gs) - ds, GsS1(gs) - ds)
        /\ gs.calls = Cardinality(GsStored(gs))

\* C20 (as claimed): the window of a node with lag shift starts shift/2
\* samples after the start of the Pair's window and ends shift/2 samples
\* before its end.
C20_WindowShrinksSymmetrically ==
    gs.pc \in {"nodes", "returned", "raised"} =>
        \A n \in GsStored(gs) :
            LET ds == Abs(gs.m.slags[n[2]]) \div 2
            IN  gs.out[n[1]][n[2]] =
                    GsExpected(gs, n[1], n[2], gs.kw.srccorr,
                               GsS0(gs) + ds, GsS1(gs) - ds)

\* C20 (amended): the window of a node with lag shift is the Pair's window
\* moved as a whole by int(|shift| / 2) samples towards the start of the
\* trace and lies within the trace; its width, the width of the Pair's
\* window, is the number of samples of every stored score.
C20_WindowMovesByHalfShift ==
    gs.pc \in {"nodes", "returned", "raised"} =>
        \A n \in GsStored(gs) :
            LET ds == Abs(gs.m.slags[n[2]]) \div 2
            IN  /\ GsS0(gs) - ds >= 0
                /\ gs.out[n[1]][n[2]] =
                       GsExpected(gs, n[1], n[2], gs.kw.srccorr,
                                  GsS0(gs) - ds, GsS1(gs) - ds)
                /\ Len(gs.out[n[1]][n[2]].x) = gs.m.data.window.width
                /\ Len(gs.out[n[1]][n[2]].y) = gs.m.data.window.width

\* C20 witness: the score of a node with a lag of 2 samples or more is
\* stored for a window of 3 samples.
C20_Witness ==
    /\ gs.pc \in {"nodes", "returned"}
    /\ gs.m.data.window.width = 3
    /\ \E n \in GsStored(gs) :
          /\ gs.m.slags[n[2]] >= 2
          /\ Len(gs.out[n[1]][n[2]].x) = 3

\* C21: gridsearch is one pass that ends: prerot holds one rotation of
\* the working traces per candidate angle before the objective is first
\* called, the objective is called once per node passed and never more than
\* len(degs) x len(slags) times, the double loop is at a node of the grid
\* or past its last node, and the surface returned after exactly
\* len(degs) x len(slags) calls has one row per angle and one column per
\* lag, with out[i][j] the score of the node (degs[i], slags[j]).
C21_SinglePassOverTheGrid ==
    /\ gs.pc = "prerot" => gs.calls = 0 /\ Len(gs.prerot) < Len(gs.m.degs)
    /\ gs.pc = "nodes" =>
          /\ gs.i \in 1..(Len(gs.m.degs) + 1)
          /\ gs.j \in 1..Len(gs.m.slags)
          /\ gs.i = Len(gs.m.degs) + 1 => gs.j = 1
    /\ gs.pc \in {"nodes", "returned"} \/ gs.calls >= 1 =>
          /\ Len(gs.prerot) = Len(gs.m.degs)
          /\ \A k \in 1..Len(gs.prerot) : gs.prerot[k] = rotate(gs.xy, gs.m.degs[k])
          /\ gs.calls = (gs.i - 1) * Len(gs.m.slags) + (gs.j - 1)
          /\ gs.calls <= Len(gs.m.degs) * Len(gs.m.slags)
    /\ gs.pc = "returned" =>
          /\ gs.calls = Len(gs.m.degs) * Len(gs.m.slags)
          /\ Len(gs.ret) = Len(gs.m.degs)
          /\ \A i \in 1..Len(gs.ret) :
                /\ Len(gs.ret[i]) = Len(gs.m.slags)
                /\ \A j \in 1..Len(gs.ret[i]) :
                      LET ds == Abs(gs.m.slags[j]) \div 2
                      IN  gs.ret[i][j] =
                              GsExpected(gs, i, j, gs.kw.srccorr, GsS0(gs) - ds, GsS1(gs) - ds)

\* C21 witness: gridsearch has returned a surface of two angles by two lags
\* after four calls of the objective.
C21_Witness ==
    /\ gs.pc = "returned"
    /\ Len(gs.m.degs) = 2
    /\ Len(gs.m.slags) = 2
    /\ gs.calls = 4
    /\ Len(gs.ret) = 2
    /\ Len(gs.ret[2]) = 2

\* C23: no step of gridsearch changes the Measure (its data with samples,
\* orientation, window and delta, and its grid), and a second call with the
\* same keywords ends as the first did: with the same surface returned, or
\* with the same error raised.
C23_GridsearchLeavesMeasureUnchanged ==
    [][ /\ gs'.m = gs.m
        /\ (gs'.first # GsFirstNone /\ gs'.pc \in {"returned", "raised"}) =>
              /\ gs'.pc = gs'.first.pc
              /\ gs'.raised = gs'.first.raised
              /\ gs'.ret = gs'.first.ret ]_vars

\* C23 witness: the second call on a Measure whose data are not at angle 0
\* has returned a surface.
C23_Witness ==
    /\ gs.first.pc = "returned"
    /\ gs.pc = "returned"
    /\ gs.ret # << >>
    /\ gs.m.data.cmpvecs # Eye2

\* C27: the window of a node has the width of the Pair's window whatever
\* the lag, win(shift) = win(-shift), and all the scores stored were
\* computed over that many samples.
C27_SegmentsEquallyLong ==
    gs.pc \in {"nodes", "returned", "raised"} =>
        /\ \A j \in 1..Len(gs.m.slags) :
              LET a == win(gs.s0, gs.s1, gs.m.slags[j])
                  b == win(gs.s0, gs.s1, -gs.m.slags[j])
              IN  a = b /\ a.s1 - a.s0 = gs.s1 - gs.s0
        /\ \A n \in GsStored(gs) :
              /\ Len(gs.out[n[1]][n[2]].x) = gs.s1 - gs.s0 + 1
              /\ Len(gs.out[n[1]][n[2]].y) = gs.s1 - gs.s0 + 1

\* C27 witness: one row of the surface holds the scores of a node without
\* lag and of a node with a lag of 2 samples or more, over a window of 3
\* samples.
C27_Witness ==
    /\ gs.pc \in {"nodes", "returned"}
    /\ gs.s1 - gs.s0 = 2
    /\ \E n1 \in GsStored(gs), n2 \in GsStored(gs) :
          /\ n1[1] = n2[1]
          /\ gs.m.slags[n1[2]] = 0
          /\ gs.m.slags[n2[2]] >= 2
          /\ Len(gs.out[n2[1]][n2[2]].x) = 3

---------------------------------------------------------------------------
(* Measure.gridsearch with the rows of the surface given to workers        *)

\* the double loop of lines 134-135 and the return of line 137, run to its
\* end from the activation g
RECURSIVE SeqRun(_)
SeqRun(g) ==
    IF g.pc # "nodes" THEN g
    ELSE IF g.i > Len(g.m.degs) THEN [g EXCEPT !.pc = "returned", !.ret = g.out]
    ELSE SeqRun(gridsearch_node(g))

\* the activation g at the start of the sequential double loop
SeqStart(g) ==
    [g EXCEPT !.pc = "nodes", !.i = 1, !.j = 1, !.out = << >>, !.calls = 0,
              !.raised = "none", !.ret = << >>, !.order = << >>]

\* a gridsearch whose surface starts as one empty row per angle; order
\* lists the rows in the order in which their nodes were evaluated
GsRowsInit ==
    gs \in { [pc |-> "configured", m |-> m, kw |-> kw, xy |-> NoPair, s0 |-> 0, s1 |-> 0,
              prerot |-> << >>, i |-> 1, j |-> 1,
              out |-> [ i \in 1..Len(m.degs) |-> << >> ], calls |-> 0,
              raised |-> "none", ret |-> << >>, first |-> GsFirstNone, order |-> << >>] :
             m \in GsMeasures, kw \in GsKeywords }

\* the worker that owns row i evaluates the next node of its row from the
\* read-only prerot[i] and writes the cell
GsRowNode ==
    /\ gs.pc = "nodes"
    /\ \E i \in 1..Len(gs.m.degs) :
          /\ Len(gs.out[i]) < Len(gs.m.slags)
          /\ LET j == Len(gs.out[i]) + 1
                 r == getout(gs, gs.prerot[i], gs.m.degs[i], gs.m.slags[j])
             IN  gs' = IF r.raised # "none"
                         THEN [gs EXCEPT !.pc = "raised", !.raised = r.raised,
                                         !.i = i, !.j = j]
                         ELSE [gs EXCEPT !.out[i] = Append(@, r.score),
                                         !.calls = @ + 1,
                                         !.order = Append(@, i)]
    /\ UNCHANGED <<grid, errs, pair, hist, twin, call, eig>>

\* all the rows are complete: the surface is returned
GsGather ==
    /\ gs.pc = "nodes"
    /\ \A i \in 1..Len(gs.m.degs) : Len(gs.out[i]) = Len(gs.m.slags)
    /\ gs' = [gs EXCEPT !.pc = "returned", !.ret = gs.out]
    /\ UNCHANGED <<grid, errs, pair, hist, twin, call, eig>>

---------------------------------------------------------------------------
(* Measure.__init__ (measure.py): the constructor and its keywords         *)

\* a correction keyword: [kind, vals] with kind "tuple", "list" or "None";
\* a tuple or list of two values holds an angle and a lag time
CorrValue(kind, vals) == [kind |-> kind, vals |-> vals]

\* lines 40-47 (49-58): the check of one correction keyword and the two
\* attributes set from it, the private (deg, samps) and the public (deg, time)
parse_corr(kw, delta) ==
    IF ~kw.given THEN [raised |-> "none", private |-> NoCorr, public |-> "None"]
    ELSE IF kw.val.kind # "tuple"
      THEN [raised |-> "TypeError", private |-> NoCorr, public |-> "None"]
    ELSE IF Len(kw.val.vals) # 2
      THEN [raised |-> "Exception", private |-> NoCorr, public |-> "None"]
    ELSE LET c == Corr(kw.val.vals[1], kw.val.vals[2], delta)
         IN  [raised |-> "none", private |-> c,
              public |-> << c.phi, c.samps * delta >>]

\* no Measure
NoMeasure == [data |-> NoPair]

\* the mutant of MeasureInit: a correction is stored as it is given
MeasureInit_unchecked(data, degs, lagskw, rcvkw, srckw) ==
    LET g == get_lags_and_slags(lagskw, data.window.width, data.delta)
    IN  IF g.raised # "none"
          THEN [raised |-> g.raised, obj |-> NoMeasure, rcvcorr |-> "None", srccorr |-> "None"]
          ELSE [raised |-> "none",
                obj |-> NewMeasure(data, degs, lagskw, NoCorr, NoCorr),
                rcvcorr |-> IF rcvkw.given THEN rcvkw.val.vals ELSE "None",
                srccorr |-> IF srckw.given THEN srckw.val.vals ELSE "None"]

\* Measure.__init__(data, func, **kwargs): the Measure with its private
\* correction tuples, obj, and its public attributes rcvcorr and srccorr,
\* or the error raised: by the grid (line 36), by rcvcorr, then by srccorr
MeasureInit(data, degs, lagskw, rcvkw, srckw) ==
    LET g   == get_lags_and_slags(lagskw, data.window.width, data.delta)
        rcv == parse_corr(rcvkw, data.delta)
        src == parse_corr(srckw, data.delta)
        err == IF g.raised # "none" THEN g.raised
               ELSE IF rcv.raised # "none" THEN rcv.raised
               ELSE src.raised
    IN  IF err # "none"
          THEN [raised |-> err, obj |-> NoMeasure, rcvcorr |-> "None", srccorr |-> "None"]
          ELSE [raised |-> "none",
                obj |-> NewMeasure(data, degs, lagskw, rcv.private, src.private),
                rcvcorr |-> rcv.public, srccorr |-> src.public]

\* the Python value None
PyNone == [none |-> TRUE]

\* data_corr not called
DcNone == [raised |-> "none", ret |-> PyNone, fast |-> Deg0, lag |-> Rat(0, 1)]

\* Measure.data_corr(), lines 333-344, on the Measure m with the public
\* attributes rcvcorr and srccorr and the attributes fast and lag: the value
\* returned or the error raised, and the sample counts handed to core.unsplit
\* on the way. Pair.unsplit works in place and returns None, and each
\* statement `data_corr = data_corr.unsplit(...)` rebinds data_corr to what
\* it returns: the first such statement leaves None, the next one raises
\* AttributeError on None.
Measure_data_corr(m, rcvcorr, srccorr, fast, lagtime) ==
    LET copy == m.data
    IN  IF rcvcorr # "None"
          THEN \* line 338 runs on the copy, line 340 finds None
               [raised |-> "AttributeError", ret |-> PyNone,
                passed |-> << split_samps(copy, Rat(rcvcorr[2], 1)) >>]
        ELSE IF srccorr # "None"
          THEN \* line 340 runs on the copy, line 343 finds None
               [raised |-> "AttributeError", ret |-> PyNone,
                passed |-> << split_samps(copy, lagtime) >>]
        ELSE \* line 340 runs on the copy, line 344 returns None
             [raised |-> "none", ret |-> PyNone,
              passed |-> << split_samps(copy, lagtime) >>]

\* the correction keywords tried
CorrKeywords ==
    { Absent, Given(CorrValue("None", << >>)),
      Given(CorrValue("list", << Deg53, Rat(2, 1) >>)),
      Given(CorrValue("tuple", << >>)),
      Given(CorrValue("tuple", << Deg53 >>)),
      Given(CorrValue("tuple", << Deg53, Rat(2, 1), Rat(2, 1) >>)) }
    \cup { Given(CorrValue("tuple", << a, Rat(t, 2) >>)) :
             a \in { Deg0, Deg53 }, t \in 0..(2 * MaxCorrLag) }

\* the constructions of a Measure tried
MeasureStart ==
    gs \in { [pc |-> "new", data |-> d, degs |-> << Deg0, Deg90 >>, lagskw |-> l,
              rcvkw |-> r, srckw |-> c, raised |-> "none", m |-> NoMeasure,
              rcvcorr |-> "None", srccorr |-> "None", passed |-> << >>, dc |-> DcNone] :
             d \in { NewPair(TraceX(5), TraceY(5), dl) : dl \in 1..MaxDelta },
             l \in { [kind |-> "array", vals |-> << Rat(0, 1), Rat(2, 1) >>],
                     [kind |-> "other", vals |-> << >>] },
             r \in CorrKeywords, c \in CorrKeywords }

\* Measure(data, func, degs=..., lags=..., rcvcorr=..., srccorr=...)
MeasureNew ==
    /\ gs.pc = "new"
    /\ LET r == MeasureInit(gs.data, gs.degs, gs.lagskw, gs.rcvkw, gs.srckw)
       IN  gs' = [gs EXCEPT !.pc = IF r.raised = "none" THEN "constructed" ELSE "raised",
                            !.raised = r.raised, !.m = r.obj,
                            !.rcvcorr = r.rcvcorr, !.srccorr = r.srccorr]
    /\ UNCHANGED <<grid, errs, pair, hist, twin, call, eig>>

\* the lag times of the calls of Pair.split and of data_corr tried
SplitLags == { Rat(t, 2) : t \in 0..(2 * MaxSplitLag) }

\* data.split(fast, lag) on the data before the Measure is constructed
SplitData ==
    /\ gs.pc = "new"
    /\ gs.passed = << >>
    /\ \E t \in SplitLags :
          gs' = [gs EXCEPT !.data = PairSplit(@, Deg53, t),
                           !.passed = << split_samps(gs.data, t) >>]
    /\ UNCHANGED <<grid, errs, pair, hist, twin, call, eig>>

\* measure.data_corr() with the attributes fast and lag set
DataCorr ==
    /\ gs.pc = "constructed"
    /\ \E fast \in { Deg0, Deg53 }, t \in { Rat(1, 1), Rat(3, 2) } :
          LET r == Measure_data_corr(gs.m, gs.rcvcorr, gs.srccorr, fast, t)
          IN  gs' = [gs EXCEPT !.pc = "corrected",
                               !.dc = [raised |-> r.raised, ret |-> r.ret,
                                       fast |-> fast, lag |-> t],
                               !.passed = @ \o r.passed]
    /\ UNCHANGED <<grid, errs, pair, hist, twin, call, eig>>

\* the keyword kw is given and is not a tuple
CorrNotTuple(kw) == kw.given /\ kw.val.kind # "tuple"

\* the keyword kw is given as a tuple of another length than 2
CorrWrongLength(kw) == kw.given /\ kw.val.kind = "tuple" /\ Len(kw.val.vals) # 2

\* the public attribute of a well-formed correction keyword: the angle and
\* the nearest even number of samples of the lag, times delta
CorrSnapped(kw, attr, delta) ==
    /\ attr[1] = kw.val.vals[1]
    /\ \E k \in 0..(4 * MaxCorrLag) :
          /\ attr[2] = 2 * k * delta
          /\ NearestEven(2 * k, kw.val.vals[2], delta)

\* C14: with a usable lags keyword, a Measure whose rcvcorr (or, rcvcorr
\* being absent or well-formed, srccorr) is not a tuple raises TypeError, one
\* that is a tuple of another length than 2 raises an error, and in both
\* cases no Measure exists; a well-formed (angle, lag) is stored as the
\* angle and the nearest even sample count of lag times delta.
C14_MalformedCorrectionFailsAtConstruction ==
    (gs.pc \in {"constructed", "raised"} /\ gs.lagskw.kind = "array") =>
        /\ CorrNotTuple(gs.rcvkw) => (gs.raised = "TypeError" /\ gs.m = NoMeasure)
        /\ CorrWrongLength(gs.rcvkw) => (gs.raised = "Exception" /\ gs.m = NoMeasure)
        /\ (~CorrNotTuple(gs.rcvkw) /\ ~CorrWrongLength(gs.rcvkw)) =>
              /\ CorrNotTuple(gs.srckw) => (gs.raised = "TypeError" /\ gs.m = NoMeasure)
              /\ CorrWrongLength(gs.srckw) => (gs.raised = "Exception" /\ gs.m = NoMeasure)
        /\ (CorrNotTuple(gs.rcvkw) \/ CorrWrongLength(gs.rcvkw) \/ CorrNotTuple(gs.srckw)
              \/ CorrWrongLength(gs.srckw)) => (gs.pc = "raised" /\ gs.m = NoMeasure)
        /\ gs.pc = "constructed" =>
              /\ gs.rcvkw.given => CorrSnapped(gs.rcvkw, gs.rcvcorr, gs.data.delta)
              /\ ~gs.rcvkw.given => gs.rcvcorr = "None"
              /\ gs.srckw.given => CorrSnapped(gs.srckw, gs.srccorr, gs.data.delta)
              /\ ~gs.srckw.given => gs.srccorr = "None"

\* C14 witness: a Measure with a well-formed rcvcorr and a srccorr tuple of
\* three values has raised at construction.
C14_Witness ==
    /\ gs.pc = "raised"
    /\ gs.lagskw.kind = "array"
    /\ gs.rcvkw = Given(CorrValue("tuple", << Deg53, Rat(3, 2) >>))
    /\ gs.srckw = Given(CorrValue("tuple", << Deg53, Rat(2, 1), Rat(2, 1) >>))
    /\ gs.raised = "Exception"
    /\ gs.m = NoMeasure

\* C22: every sample count handed to the split, unsplit and lag primitives
\* is even: the counts Pair.split and Pair.unsplit computed from a lag time
\* and the delta of the Pair, the slags of the Measure's grid, and the
\* sample counts of its receiver and source corrections.
C22_SampleCountsEven ==
    /\ \A k \in 1..Len(gs.passed) : gs.passed[k] % 2 = 0
    /\ gs.pc \in {"constructed", "corrected"} =>
          /\ \A j \in 1..Len(gs.m.slags) : gs.m.slags[j] % 2 = 0
          /\ gs.m.rcvcorr.samps % 2 = 0
          /\ gs.m.srccorr.samps % 2 = 0

\* C22 witness: Pair.split and Pair.unsplit were each handed a lag time
\* that is an odd number of half samples, on a Measure with a receiver
\* correction of 2 samples and a grid with a non-zero lag.
C22_Witness ==
    /\ gs.pc = "corrected"
    /\ gs.data.delta = 1
    /\ gs.passed = << 2, 2 >>
    /\ gs.dc.lag = Rat(3, 2)
    /\ gs.rcvcorr = "None"
    /\ gs.m.srccorr.samps = 2
    /\ \E j \in 1..Len(gs.m.slags) : gs.m.slags[j] > 0

\* the Pair with the correction corr, a public attribute (angle, time) or
\* None, removed
Uncorrected(p, corr) ==
    IF corr = "None" THEN p ELSE PairUnsplit(p, corr[1], Rat(corr[2], 1))

\* C25 (as claimed): data_corr returns a Pair, never None, and does not
\* raise: the copy of the data with the receiver correction, the splitting
\* (fast, lag) and the source correction removed in this order; the data
\* of the Measure are unchanged.
C25_DataCorrReturnsCorrectedPair ==
    gs.pc = "corrected" =>
        /\ gs.dc.raised = "none"
        /\ gs.dc.ret # PyNone
        /\ gs.dc.ret = Uncorrected(PairUnsplit(Uncorrected(gs.m.data, gs.rcvcorr),
                                               gs.dc.fast, gs.dc.lag),
                                   gs.srccorr)
        /\ gs.m.data = gs.data

---------------------------------------------------------------------------
(* EigenM (eigval/eigenM.py)                                               *)

EigIdle == [pc |-> "idle"]

\* np.meshgrid(degs, lags): two arrays with a row for every lag and a
\* column for every angle
meshgrid(degs, lags) ==
    [degs |-> [ i \in 1..Len(lags) |-> degs ],
     lags |-> [ i \in 1..Len(lags) |-> [ j \in 1..Len(degs) |-> lags[i] ] ]]

\* the nodes of a surface, as pairs of indices
Nodes(surf) == { n \in (1..Len(surf)) \X (1..Len(surf[1])) : TRUE }

\* lam1/lam2 at the node a is larger than at the node b; a quotient by 0
\* is infinite
RatioGreater(lam1, lam2, a, b) ==
    lam1[a[1]][a[2]] * lam2[b[1]][b[2]] > lam1[b[1]][b[2]] * lam2[a[1]][a[2]]

\* the node a comes before the node b in the order of the flattened array
Before(a, b) == a[1] < b[1] \/ (a[1] = b[1] /\ a[2] < b[2])

\* core.max_idx(lam1 / lam2): the index of the first maximum
max_idx(lam1, lam2) ==
    CHOOSE n \in Nodes(lam1) :
        \A k \in Nodes(lam1) :
            /\ ~RatioGreater(lam1, lam2, k, n)
            /\ Before(k, n) => RatioGreater(lam1, lam2, n, k)

\* the mutant of bestfit: the lag is read at the transposed index
bestfit_transposed(degs, lags, lam1, lam2) ==
    LET maxloc == max_idx(lam1, lam2)
    IN  [fast |-> degs[maxloc[1]][maxloc[2]], lag |-> lags[maxloc[2]][maxloc[1]]]

\* EigenM.__init__, lines 73-75: fast and lag read at maxloc
bestfit(degs, lags, lam1, lam2) ==
    LET maxloc == max_idx(lam1, lam2)
    IN  [fast |-> degs[maxloc[1]][maxloc[2]], lag |-> lags[maxloc[1]][maxloc[2]]]

\* the pairs (lam1, lam2) of eigenvalues tried: lam1 >= lam2 >= 0, lam1 > 0
EigVals ==
    { v \in (1..MaxLam) \X (0..(MaxLam - 1)) : v[1] >= v[2] }

\* the grid of the EigenMs tried: two angles in degrees, two lags in samples
EigGrid == meshgrid(<< -90, 0 >>, << 0, 2 >>)

EigInit ==
    eig \in { [pc |-> "searched", degs |-> EigGrid.degs, lags |-> EigGrid.lags,
               lam1 |-> [ i \in 1..2 |-> [ j \in 1..2 |-> v[i][j][1] ] ],
               lam2 |-> [ i \in 1..2 |-> [ j \in 1..2 |-> v[i][j][2] ] ],
               fast |-> 0, lag |-> 0] :
              v \in [ 1..2 -> [ 1..2 -> EigVals ] ] }

\* EigenM.__init__ after the grid search: the best fit is read off
EigBestFit ==
    /\ eig.pc = "searched"
    /\ LET r == bestfit(eig.degs, eig.lags, eig.lam1, eig.lam2)
       IN  eig' = [eig EXCEPT !.pc = "fitted", !.fast = r.fast, !.lag = r.lag]
    /\ UNCHANGED <<grid, errs, pair, hist, twin, call, gs>>

\* C10: the fast angle and the lag an EigenM reports are the angle and the
\* lag of one and the same grid node, and no node of the surface has a
\* strictly larger lam1/lam2 than that node.
C10_BestFitIsGlobalMaximumNode ==
    eig.pc = "fitted" =>
        \E n \in Nodes(eig.lam1) :
            /\ eig.fast = eig.degs[n[1]][n[2]]
            /\ eig.lag = eig.lags[n[1]][n[2]]
            /\ \A k \in Nodes(eig.lam1) :
                  eig.lam1[k[1]][k[2]] * eig.lam2[n[1]][n[2]]
                      <= eig.lam1[n[1]][n[2]] * eig.lam2[k[1]][k[2]]

\* C10 witness: a fitted EigenM whose surface has its single largest
\* finite lam1/lam2 off the diagonal, at the second lag and the first angle.
C10_Witness ==
    /\ eig.pc = "fitted"
    /\ eig.lam2[2][1] > 0
    /\ \A k \in Nodes(eig.lam1) \ { << 2, 1 >> } :
          RatioGreater(eig.lam1, eig.lam2, << 2, 1 >>, k)
    /\ eig.fast = -90
    /\ eig.lag = 2

InitLags ==
    GridInit /\ errs = ErrsIdle /\ pair = NoPair /\ hist = HistNone /\ twin = NoPair
    /\ call = CallNone /\ gs = GsIdle /\ eig = EigIdle

NextLags == BuildGrid \/ BuildGridAgain \/ RebuildGrid

SpecLags == InitLags /\ [][NextLags]_vars

InitErrs ==
    ErrsInit /\ grid = GridIdle /\ pair = NoPair /\ hist = HistNone /\ twin = NoPair
    /\ call = CallNone /\ gs = GsIdle /\ eig = EigIdle

NextErrs == GetErrors \/ GetErrorsRolled

SpecErrs == InitErrs /\ [][NextErrs]_vars

InitPair ==
    PairInit /\ grid = GridIdle /\ errs = ErrsIdle /\ twin = NoPair /\ call = CallNone /\ gs = GsIdle
    /\ eig = EigIdle

NextPair == Rotateto \/ Split \/ Unsplit

SpecPair == InitPair /\ [][NextPair]_vars

InitWindow == WindowInit /\ grid = GridIdle /\ errs = ErrsIdle /\ gs = GsIdle /\ eig = EigIdle

NextWindow == NewWindowEven \/ SetWindow \/ SetWindowTimes \/ Copy \/ Asarray

SpecWindow == InitWindow /\ [][NextWindow]_vars

InitData ==
    DataStart /\ grid = GridIdle /\ errs = ErrsIdle /\ gs = GsIdle /\ eig = EigIdle

NextData == Construct \/ SetDelta \/ RotatetoData \/ EigenMNew

SpecData == InitData /\ [][NextData]_vars

InitMeasure ==
    MeasureStart /\ grid = GridIdle /\ errs = ErrsIdle /\ pair = NoPair /\ hist = HistNone
    /\ twin = NoPair /\ call = CallNone /\ eig = EigIdle

NextMeasure == SplitData \/ MeasureNew \/ DataCorr

SpecMeasure == InitMeasure /\ [][NextMeasure]_vars

InitGrid ==
    GsInit /\ grid = GridIdle /\ errs = ErrsIdle /\ pair = NoPair /\ hist = HistNone
    /\ twin = NoPair /\ call = CallNone /\ eig = EigIdle

NextGrid == GsBegin \/ GsPrerot \/ GsNode \/ GsReturn \/ GsAgain

SpecGrid == InitGrid /\ [][NextGrid]_vars

InitGridRows ==
    GsRowsInit /\ grid = GridIdle /\ errs = ErrsIdle /\ pair = NoPair /\ hist = HistNone
    /\ twin = NoPair /\ call = CallNone /\ eig = EigIdle

NextGridRows == GsBegin \/ GsPrerot \/ GsRowNode \/ GsGather

SpecGridRows == InitGridRows /\ [][NextGridRows]_vars

InitEigen ==
    EigInit /\ grid = GridIdle /\ errs = ErrsIdle /\ pair = NoPair /\ hist = HistNone
    /\ twin = NoPair /\ call = CallNone /\ gs = GsIdle

NextEigen == EigBestFit

SpecEigen == InitEigen /\ [][NextEigen]_vars

===========================================================================
